---- MODULE Spec2Model ----
(***************************************************************************)
(* Verification model of the Launchpad mapper engine                       *)
(* (src/archive/launchpad_mapper_old.py, the engine that src/server.py and *)
(* src/tests drive: it is the version with profile_lock, connection_lock,  *)
(* auto-reconnect and idle tracking), of src/server.py's import handler    *)
(* and of src/schema_validation.py.                                        *)
(*                                                                         *)
(* One module, several specifications over one set of variables:           *)
(*   SpecPress  - event dispatch: press/release, long-press timers,        *)
(*                key-repeat tasks, disconnect                             *)
(*   SpecConn   - connect / disconnect / auto-reconnect and the            *)
(*                connection lock                                          *)
(*   SpecLayer  - layer stack, mapping edits and LED repaint under the     *)
(*                profile lock                                             *)
(*   SpecIdle   - idle monitor, idle animation, reset_activity, start/stop *)
(*   SpecImport - profile import with schema validation                    *)
(***************************************************************************)
EXTENDS Integers, Sequences, FiniteSets, TLC

(***************************************************************************)
(* Bounds of the model                                                     *)
(***************************************************************************)
MaxTime == 2
MaxPresses == 2
MaxDisconnects == 1
MaxIdleWorkers == 2
MaxThreads == 2
MaxOps == 3
MaxConnects == 2
MaxHangs == 1

(***************************************************************************)
(* Data model: PadMapping, Profile                                         *)
(***************************************************************************)
Notes == {11, 12}

None == "None"

\* the None a mapping lookup returns
NoMapping == [none |-> TRUE]

\* PadMapping dataclass. Times are in clock ticks.
PadMapping(note, key_combo, color) ==
    [note |-> note, key_combo |-> key_combo, color |-> color, enabled |-> TRUE,
     action |-> "key", target_layer |-> None, repeat_enabled |-> FALSE,
     macro_steps |-> <<>>, velocity_mappings |-> <<>>,
     long_press_enabled |-> FALSE, long_press_action |-> "",
     long_press_threshold |-> 2]

\* Profile.__init__
NewProfile(name, base_layer) ==
    [name |-> name, description |-> "", base_layer |-> base_layer,
     layers |-> [l \in {base_layer} |-> [n \in {} |-> None]]]

\* dict item assignment d[k] = v
DictSet(d, k, v) == [x \in (DOMAIN d) \cup {k} |-> IF x = k THEN v ELSE d[x]]

\* del d[k]
DictDel(d, k) == [x \in (DOMAIN d) \ {k} |-> d[x]]

\* layer_name = layer or self.base_layer
LayerName(p, layer) == IF layer = None \/ layer = "" THEN p.base_layer ELSE layer

\* Profile.ensure_layer
ensure_layer(p, layer) ==
    IF layer \in DOMAIN p.layers THEN p
    ELSE [p EXCEPT !.layers = DictSet(p.layers, layer, [n \in {} |-> None])]

\* Profile.add_mapping
add_mapping(p, mapping, layer) ==
    LET name == LayerName(p, layer)
        q == ensure_layer(p, name)
    IN [q EXCEPT !.layers[name] = DictSet(q.layers[name], mapping.note, mapping)]

\* Profile.remove_mapping
remove_mapping(p, note, layer) ==
    LET name == LayerName(p, layer)
    IN IF name \in DOMAIN p.layers /\ note \in DOMAIN p.layers[name]
       THEN [p EXCEPT !.layers[name] = DictDel(p.layers[name], note)]
       ELSE p

\* Profile.get_layer_mappings
get_layer_mappings(p, layer) ==
    LET name == LayerName(p, layer)
    IN IF name \in DOMAIN p.layers THEN p.layers[name] ELSE [n \in {} |-> None]

\* Profile.get_mapping
get_mapping(p, note, layer) ==
    LET m == get_layer_mappings(p, layer)
    IN IF note \in DOMAIN m THEN m[note] ELSE NoMapping

\* range_str.split('-') and int() of its parts, over the range strings the
\* model uses: <<low, high>>, or <<>> where the string has no '-', has more
\* than two parts ("1-2-3") or a part that is no integer ("a-b"), the cases
\* in which the unpacking or int() raises ValueError
VelocityRange(range_str) ==
    CASE range_str = "0-63" -> <<0, 63>>
      [] range_str = "64-127" -> <<64, 127>>
      [] range_str = "0-127" -> <<0, 127>>
      [] range_str = "50-60" -> <<50, 60>>
      [] range_str = "90-10" -> <<90, 10>>
      [] range_str = "0-200" -> <<0, 200>>
      [] OTHER -> <<>>

\* the loop of get_velocity_action with the last matching entry returned,
\* not the first
RECURSIVE LastMatch(_, _, _)
LastMatch(table, velocity, default) ==
    IF table = <<>> THEN default
    ELSE LET parts == VelocityRange(table[Len(table)].range)
         IN IF Len(parts) = 2 /\ parts[1] <= velocity /\ velocity <= parts[2]
            THEN table[Len(table)].action
            ELSE LastMatch(SubSeq(table, 1, Len(table) - 1), velocity, default)

\* the loop of LaunchpadMapper.get_velocity_action over the items of
\* velocity_mappings in their stored order, each a range string and its
\* action: an entry whose range string does not parse is skipped, the first
\* entry with low <= velocity <= high returns its action, and the end of the
\* loop returns the default
RECURSIVE FirstMatch(_, _, _)
FirstMatch(table, velocity, default) ==
    IF table = <<>> THEN default
    ELSE LET parts == VelocityRange(Head(table).range)
         IN IF Len(parts) = 2 /\ parts[1] <= velocity /\ velocity <= parts[2]
            THEN Head(table).action
            ELSE FirstMatch(Tail(table), velocity, default)

\* LaunchpadMapper.get_velocity_action
get_velocity_action(mapping, velocity) ==
    IF mapping.velocity_mappings = <<>> THEN mapping.key_combo
    ELSE FirstMatch(mapping.velocity_mappings, velocity, mapping.key_combo)

(***************************************************************************)
(* JSON values and src/schema_validation.py                                *)
(* A JSON value is a record [type, val], type being the name of its Python *)
(* type; a dict's val is a function on its keys, a list's val a sequence.  *)
(* A validator returns Ok(value) where the code returns value, and         *)
(* ValidationError(message, field) where it raises. Strings are atoms, so  *)
(* what the code reads off the characters of a string (int(), startswith,  *)
(* split, a character `in` it) is tabulated over the strings the payloads  *)
(* of the model use. Numbers of seconds are counted in hundredths. Where   *)
(* the code raises at the first failing item of a dict, in the dict's      *)
(* order, the model takes some failing item: its dicts have no order.      *)
(***************************************************************************)
JStr(s) == [type |-> "str", val |-> s]
JInt(i) == [type |-> "int", val |-> i]
JFloat(h) == [type |-> "float", val |-> h]
JBool(b) == [type |-> "bool", val |-> b]
JDict(d) == [type |-> "dict", val |-> d]
JList(s) == [type |-> "list", val |-> s]
JNull == [type |-> "NoneType", val |-> None]

\* dict.get(k, default) on a JSON dict
Get(d, k, default) == IF k \in DOMAIN d THEN d[k] ELSE default

\* `not data`
Falsy(value) ==
    CASE value.type = "dict" -> DOMAIN value.val = {}
      [] value.type = "list" -> Len(value.val) = 0
      [] value.type = "str" -> value.val = ""
      [] value.type \in {"int", "float"} -> value.val = 0
      [] value.type = "bool" -> ~value.val
      [] OTHER -> TRUE

MAX_PROFILE_SIZE_BYTES == 10 * 1024 * 1024
MAX_MAPPINGS_PER_LAYER == 500
MAX_LAYERS == 50
MAX_MACRO_STEPS == 100
MAX_STRING_LENGTH == 1000
MAX_VELOCITY_MAPPINGS == 20

Ok(value) == [ok |-> TRUE, val |-> value]

\* raise ValidationError(message, field)
ValidationError(message, field) == [ok |-> FALSE, message |-> message, field |-> field]

\* `x = f(...)` and the statements after it: they run, with f's result, if
\* f raised nothing
Then(result, rest(_)) == IF result.ok THEN rest(result.val) ELSE result

\* a loop over the items of a dict that validates each: the exception of a
\* failing item, or the validated items
Each(results) ==
    IF \E k \in DOMAIN results : ~results[k].ok
    THEN results[CHOOSE k \in DOMAIN results : ~results[k].ok]
    ELSE Ok([k \in DOMAIN results |-> results[k].val])

validate_type(value, expected_type, field) ==
    IF value.type = expected_type THEN Ok(value.val)
    ELSE ValidationError("Expected " \o expected_type \o ", got " \o value.type, field)

validate_string(value, field, max_length, allow_empty) ==
    IF value.type # "str" THEN validate_type(value, "str", field)
    ELSE IF Len(value.val) > max_length
         THEN ValidationError("String exceeds maximum length of " \o ToString(max_length),
                              field)
    ELSE IF ~allow_empty /\ value.val = ""
         THEN ValidationError("String cannot be empty", field)
    ELSE Ok(value.val)

validate_int(value, field, min_val, max_val) ==
    IF value.type = "bool" THEN ValidationError("Expected integer, got boolean", field)
    ELSE IF value.type # "int"
         THEN ValidationError("Expected integer, got " \o value.type, field)
    ELSE IF value.val < min_val
         THEN ValidationError("Value must be >= " \o ToString(min_val), field)
    ELSE IF value.val > max_val
         THEN ValidationError("Value must be <= " \o ToString(max_val), field)
    ELSE Ok(value.val)

\* float(value), in hundredths
float(value) == IF value.type = "int" THEN 100 * value.val ELSE value.val

\* min_val and max_val in hundredths
validate_float(value, field, min_val, max_val) ==
    IF value.type = "bool" THEN ValidationError("Expected number, got boolean", field)
    ELSE IF value.type \notin {"int", "float"}
         THEN ValidationError("Expected number, got " \o value.type, field)
    ELSE IF float(value) < min_val THEN ValidationError("Value too small", field)
    ELSE IF float(value) > max_val THEN ValidationError("Value too large", field)
    ELSE Ok(float(value))

validate_bool(value, field) == validate_type(value, "bool", field)

validate_dict(value, field) == validate_type(value, "dict", field)

validate_list(value, field, max_length) ==
    IF value.type # "list" THEN validate_type(value, "list", field)
    ELSE IF Len(value.val) > max_length
         THEN ValidationError("List exceeds maximum length of " \o ToString(max_length),
                              field)
    ELSE Ok(value.val)

VALID_ACTIONS == {"key", "layer", "layer_up", "macro"}
VALID_COLORS ==
    {"off", "white", "red", "red_dim", "orange", "orange_dim", "yellow",
     "yellow_dim", "lime", "lime_dim", "green", "green_dim", "spring",
     "spring_dim", "cyan", "cyan_dim", "sky", "sky_dim", "blue", "blue_dim",
     "purple", "purple_dim", "magenta", "magenta_dim", "pink", "pink_dim",
     "coral", "coral_dim", "amber", "amber_dim"}

\* value.startswith('#'), and int(value[1:], 16) succeeding, over the
\* colour strings of the payloads
HashColors == {"#FF0000", "#GG0000", "#FF00"}
HexColors == {"#FF0000", "#FF00"}

validate_color(value, field) ==
    Then(validate_string(value, field, MAX_STRING_LENGTH, TRUE), LAMBDA s :
         IF s \in HashColors
         THEN IF Len(s) \notin {4, 7}
              THEN ValidationError("Invalid hex color format", field)
              ELSE IF s \notin HexColors THEN ValidationError("Invalid hex color", field)
              ELSE Ok(s)
         ELSE IF s \notin VALID_COLORS THEN ValidationError("Invalid color", field)
         ELSE Ok(s))

\* the key combos of the payloads that hold one of dangerous_chars
DangerousCombos == {"a;b", "x|y"}

validate_key_combo(value, field) ==
    Then(validate_string(value, field, 500, TRUE), LAMBDA s :
         IF s \in DangerousCombos
         THEN ValidationError("Invalid character in key combo", field)
         ELSE Ok(s))

\* validate_macro_step: the result has the keys of the step among
\* key_combo and delay_after
validate_macro_step(step, field) ==
    Then(validate_dict(step, field), LAMBDA d :
    Then(IF "key_combo" \in DOMAIN d
         THEN validate_key_combo(d["key_combo"], field \o ".key_combo")
         ELSE Ok(None), LAMBDA key_combo :
    Then(IF "delay_after" \in DOMAIN d
         THEN validate_float(d["delay_after"], field \o ".delay_after", 0, 6000)
         ELSE Ok(0), LAMBDA delay_after :
    Ok([k \in DOMAIN d \cap {"key_combo", "delay_after"} |->
           IF k = "key_combo" THEN key_combo ELSE delay_after]))))

\* 0 <= low <= 127 and 0 <= high <= 127 and low <= high
RangeOk(parts) ==
    /\ 0 <= parts[1] /\ parts[1] <= 127
    /\ 0 <= parts[2] /\ parts[2] <= 127
    /\ parts[1] <= parts[2]

validate_velocity_mappings(value, field) ==
    Then(validate_dict(value, field), LAMBDA d :
         IF Cardinality(DOMAIN d) > MAX_VELOCITY_MAPPINGS
         THEN ValidationError("Too many velocity mappings (max "
                              \o ToString(MAX_VELOCITY_MAPPINGS) \o ")", field)
         ELSE Each([range_str \in DOMAIN d |->
                      IF Len(VelocityRange(range_str)) # 2
                      THEN ValidationError("Invalid velocity range format: " \o range_str,
                                           field)
                      ELSE IF ~RangeOk(VelocityRange(range_str))
                           THEN ValidationError("Invalid velocity range: " \o range_str,
                                                field)
                      ELSE validate_key_combo(d[range_str], field \o "." \o range_str)]))

\* `'key' in data and data['key'] is not None`
Present(d, key) == key \in DOMAIN d /\ d[key].type # "NoneType"

\* the macro_steps of validate_pad_mapping: validate_list, then
\* validate_macro_step on each step
validate_macro_steps(value, field) ==
    Then(validate_list(value, field, MAX_MACRO_STEPS), LAMBDA steps :
         Each([i \in DOMAIN steps |-> validate_macro_step(steps[i], field)]))

\* validate_pad_mapping. Where the code leaves an optional key out of the
\* result, the result here has what its only reader, PadMapping.from_dict,
\* makes of the .get() of a missing key: None for target_layer, no step for
\* macro_steps, no range for velocity_mappings.
validate_pad_mapping(data, field) ==
    Then(validate_dict(data, field), LAMBDA d :
    Then(validate_int(Get(d, "note", JNull), field \o ".note", 0, 127), LAMBDA note :
    Then(validate_key_combo(Get(d, "key_combo", JStr("")), field \o ".key_combo"),
         LAMBDA key_combo :
    Then(validate_color(Get(d, "color", JStr("green")), field \o ".color"), LAMBDA color :
    Then(validate_string(Get(d, "label", JStr("")), field \o ".label", 100, TRUE),
         LAMBDA label :
    Then(validate_bool(Get(d, "enabled", JBool(TRUE)), field \o ".enabled"),
         LAMBDA enabled :
    Then(IF Get(d, "action", JStr("key")).type = "str"
            /\ Get(d, "action", JStr("key")).val \in VALID_ACTIONS
         THEN Ok(Get(d, "action", JStr("key")).val)
         ELSE ValidationError("Invalid action", field \o ".action"), LAMBDA action :
    Then(IF Present(d, "target_layer")
         THEN validate_string(d["target_layer"], field \o ".target_layer", 100, TRUE)
         ELSE Ok(None), LAMBDA target_layer :
    Then(validate_bool(Get(d, "repeat_enabled", JBool(FALSE)), field \o ".repeat_enabled"),
         LAMBDA repeat_enabled :
    Then(validate_float(Get(d, "repeat_delay", JFloat(50)), field \o ".repeat_delay",
                        0, 1000), LAMBDA repeat_delay :
    Then(validate_float(Get(d, "repeat_interval", JFloat(5)), field \o ".repeat_interval",
                        1, 1000), LAMBDA repeat_interval :
    Then(IF Present(d, "macro_steps")
         THEN validate_macro_steps(d["macro_steps"], field \o ".macro_steps")
         ELSE Ok(<<>>), LAMBDA macro_steps :
    Then(IF Present(d, "velocity_mappings")
         THEN validate_velocity_mappings(d["velocity_mappings"],
                                         field \o ".velocity_mappings")
         ELSE Ok([r \in {} |-> None]), LAMBDA velocity_mappings :
    Then(validate_bool(Get(d, "long_press_enabled", JBool(FALSE)),
                       field \o ".long_press_enabled"), LAMBDA long_press_enabled :
    Then(validate_key_combo(Get(d, "long_press_action", JStr("")),
                            field \o ".long_press_action"), LAMBDA long_press_action :
    Then(validate_float(Get(d, "long_press_threshold", JFloat(50)),
                        field \o ".long_press_threshold", 10, 1000),
         LAMBDA long_press_threshold :
    Ok([note |-> note, key_combo |-> key_combo, color |-> color, label |-> label,
        enabled |-> enabled, action |-> action, target_layer |-> target_layer,
        repeat_enabled |-> repeat_enabled, repeat_delay |-> repeat_delay,
        repeat_interval |-> repeat_interval, macro_steps |-> macro_steps,
        velocity_mappings |-> velocity_mappings,
        long_press_enabled |-> long_press_enabled,
        long_press_action |-> long_press_action,
        long_press_threshold |-> long_press_threshold])))))))))))))))))

\* int(note_str) over the note keys of the payloads (any other key raises
\* ValueError)
NoteKeys == {"11", "12", "012", "200"}
int(note_str) ==
    CASE note_str = "11" -> 11
      [] note_str = "12" -> 12
      [] note_str = "012" -> 12
      [] note_str = "200" -> 200

\* result[note_key] = validated_mapping with note_key = str(int(note_str))
Rekey(validated) ==
    [note_key \in {ToString(int(note_str)) : note_str \in DOMAIN validated} |->
        validated[CHOOSE note_str \in DOMAIN validated :
                      ToString(int(note_str)) = note_key]]

\* the loop over mappings.items() of validate_profile
validate_mappings(mappings, field) ==
    Then(Each([note_str \in DOMAIN mappings |->
                  IF note_str \notin NoteKeys
                  THEN ValidationError("Invalid note key: " \o note_str,
                                       field \o "." \o note_str)
                  ELSE validate_pad_mapping(mappings[note_str],
                                            field \o "." \o note_str)]),
         LAMBDA validated : Ok(Rekey(validated)))

\* the test `len(mappings) > MAX_MAPPINGS_PER_LAYER` and the loop after it
validate_layer(mappings, field) ==
    IF Cardinality(DOMAIN mappings) > MAX_MAPPINGS_PER_LAYER
    THEN ValidationError("Too many mappings (max "
                         \o ToString(MAX_MAPPINGS_PER_LAYER) \o ")", field)
    ELSE validate_mappings(mappings, field)

\* the test `len(layers_data) > MAX_LAYERS` without its bound
LayersUnbounded(layers_data) == FALSE

\* len(layers_data) > MAX_LAYERS
TooManyLayers(layers_data) == Cardinality(DOMAIN layers_data) > MAX_LAYERS

\* validate_profile: the layers of the result, from data['layers'], from
\* the legacy data['mappings'], or empty
validate_layers(d, base_layer, field) ==
    IF Get(d, "layers", JNull).type # "NoneType"
    THEN Then(validate_dict(d["layers"], field \o ".layers"), LAMBDA layers_data :
              IF TooManyLayers(layers_data)
              THEN ValidationError("Too many layers (max " \o ToString(MAX_LAYERS) \o ")",
                                   field \o ".layers")
              ELSE Each([layer_name \in DOMAIN layers_data |->
                           Then(validate_string(JStr(layer_name),
                                                field \o ".layers." \o layer_name
                                                      \o " (key)", 100, TRUE),
                                LAMBDA key :
                           Then(validate_dict(layers_data[layer_name],
                                              field \o ".layers." \o layer_name),
                                LAMBDA mappings :
                           validate_layer(mappings, field \o ".layers." \o layer_name)))]))
    ELSE IF "mappings" \in DOMAIN d
         THEN Then(validate_dict(d["mappings"], field \o ".mappings"), LAMBDA mappings :
              Then(validate_layer(mappings, field \o ".mappings"), LAMBDA validated :
              Ok([layer_name \in {base_layer} |-> validated])))
    ELSE Ok([layer_name \in {base_layer} |-> [n \in {} |-> None]])

validate_profile(data, field) ==
    Then(validate_dict(data, field), LAMBDA d :
    Then(validate_string(Get(d, "name", JStr("Imported")), field \o ".name", 100, FALSE),
         LAMBDA name :
    Then(validate_string(Get(d, "description", JStr("")), field \o ".description",
                         1000, TRUE), LAMBDA description :
    Then(validate_string(Get(d, "base_layer", JStr("Base")), field \o ".base_layer",
                         100, FALSE), LAMBDA base_layer :
    Then(validate_layers(d, base_layer, field), LAMBDA layers :
    Ok([name |-> name, description |-> description, base_layer |-> base_layer,
        layers |-> layers]))))))

\* sum(len(mappings) for mappings in layers.values())
RECURSIVE TotalMappings(_, _)
TotalMappings(layers, names) ==
    IF names = {} THEN 0
    ELSE LET n == CHOOSE x \in names : TRUE
         IN Cardinality(DOMAIN layers[n]) + TotalMappings(layers, names \ {n})

validate_profile_import(data, raw_size) ==
    IF raw_size > MAX_PROFILE_SIZE_BYTES
    THEN ValidationError("Profile too large", None)
    ELSE Then(validate_profile(data, "profile"), LAMBDA validated :
              Ok([validated |-> validated,
                  warnings |-> IF TotalMappings(validated.layers, DOMAIN validated.layers)
                                  > 1000
                               THEN <<"many mappings">> ELSE <<>>]))

\* PadMapping.from_dict on a validated mapping (label, repeat_delay and
\* repeat_interval are not fields of the model's PadMapping; a dict of
\* velocity mappings becomes the items get_velocity_action reads, in some
\* order of its ranges)
VelocityTable(d) ==
    LET entry(r) == [range |-> r, action |-> d[r]]
    IN CHOOSE table \in [1..Cardinality(DOMAIN d) -> {entry(r) : r \in DOMAIN d}] :
           {table[i] : i \in DOMAIN table} = {entry(r) : r \in DOMAIN d}

PadMapping_from_dict(data) ==
    [note |-> data.note, key_combo |-> data.key_combo, color |-> data.color,
     enabled |-> data.enabled, action |-> data.action,
     target_layer |-> data.target_layer, repeat_enabled |-> data.repeat_enabled,
     macro_steps |-> data.macro_steps,
     velocity_mappings |-> VelocityTable(data.velocity_mappings),
     long_press_enabled |-> data.long_press_enabled,
     long_press_action |-> data.long_press_action,
     long_press_threshold |-> data.long_press_threshold]

\* Profile.from_dict on validated data: one add_mapping per mapping of each
\* layer (a layer with no mapping adds nothing), then ensure_layer
RECURSIVE AddMappings(_, _, _)
AddMappings(p, layers, items) ==
    IF items = {} THEN p
    ELSE LET it == CHOOSE x \in items : TRUE
         IN AddMappings(add_mapping(p, PadMapping_from_dict(layers[it[1]][it[2]]), it[1]),
                        layers, items \ {it})

Profile_from_dict(data) ==
    LET created == [NewProfile(data.name, data.base_layer) EXCEPT
                        !.description = data.description]
        items == UNION {{<<layer_name, note_str>> : note_str \in DOMAIN data.layers[layer_name]}
                        : layer_name \in DOMAIN data.layers}
    IN ensure_layer(AddMappings(created, data.layers, items), data.base_layer)

\* PadMapping.to_dict: asdict(self); velocity_mappings is the dict whose
\* items the mapping holds
PadMapping_to_dict(m) ==
    [note |-> m.note, key_combo |-> m.key_combo, color |-> m.color,
     enabled |-> m.enabled, action |-> m.action, target_layer |-> m.target_layer,
     repeat_enabled |-> m.repeat_enabled, macro_steps |-> m.macro_steps,
     velocity_mappings |->
         [r \in {m.velocity_mappings[i].range : i \in DOMAIN m.velocity_mappings} |->
             LET i == CHOOSE j \in DOMAIN m.velocity_mappings :
                          m.velocity_mappings[j].range = r
             IN m.velocity_mappings[i].action],
     long_press_enabled |-> m.long_press_enabled,
     long_press_action |-> m.long_press_action,
     long_press_threshold |-> m.long_press_threshold]

\* Profile.to_dict: every layer of self.layers, its mappings under str(k)
Profile_to_dict(p) ==
    [name |-> p.name, description |-> p.description, base_layer |-> p.base_layer,
     layers |->
         [layer \in DOMAIN p.layers |->
             [key \in {ToString(k) : k \in DOMAIN p.layers[layer]} |->
                 PadMapping_to_dict(p.layers[layer][CHOOSE k \in DOMAIN p.layers[layer] :
                                                        ToString(k) = key])]]]

(***************************************************************************)
(* State                                                                   *)
(***************************************************************************)
VARIABLES
    now,                  \* time.time(), in ticks
    \* --- LaunchpadMapper fields
    heap,                 \* Profile objects by identity
    profile,              \* self.profile (an identity in heap)
    layer_stack,          \* self.layer_stack
    running,              \* self.running
    input_port,           \* self.input_port is not None
    output_port,          \* self.output_port is not None
    press_times,          \* self.press_times: note -> timestamp
    long_press_triggered, \* self.long_press_triggered: note -> bool
    active_repeats,       \* self.active_repeats: note -> thread id
    repeat_stop_events,   \* self.repeat_stop_events: note -> Event id
    last_activity_time,   \* self.last_activity_time
    idle_animation_triggered, \* self.idle_animation_triggered
    idle_thread,          \* self.idle_thread (a worker id, 0 for None)
    idle_stop_event,      \* self.idle_stop_event.is_set()
    active_animations,    \* self.active_animations: ids of listed animations
    led,                  \* what the output surface shows: note -> colour
    \* --- threads of the dispatch engine
    idleWorkers,          \* _idle_animation_worker threads alive: id -> record
    pulses,               \* PulseAnimation threads alive: id -> record
    repeatTasks,          \* key_repeat_worker threads alive: id -> record
    eventsSet,            \* repeat stop Events that are set
    timers,               \* check_long_press threads: press id -> record
    macros,               \* macro_worker threads alive: press id -> steps left
    cb,                   \* the transport callback thread
    \* --- history
    nPresses,             \* note_on events dispatched so far
    lastPress,            \* note -> id of its latest press (0: none)
    released,             \* ids of the presses whose release has been processed
    inj,                  \* press id -> what was injected for that press, and the
                          \* layer actions (pop_layer, push_layer) it made
    repeatThreads,        \* number of key_repeat_worker threads ever created
    notified,             \* layer_change notifications emitted
    disconnects,          \* number of disconnect() calls returned
    staleActs,            \* injections by tasks older than the last disconnect
    \* --- threads that call into the engine (HTTP handlers, callbacks)
    threads,              \* thread id -> its position in the call it makes
    profile_lock,         \* owner of self.profile_lock (0: not held)
    nOps,                 \* calls begun so far
    \* --- connection management
    connection_lock,      \* owner of self.connection_lock (0: not held)
    conn,                 \* thread id -> its position in connect / disconnect
    openCalls,            \* opener(...) calls in progress in _open_with_timeout workers
    hungOpens,            \* how many of them will never return
    nConnects,            \* connect() / disconnect() calls begun so far
    device,               \* the ports the attached device exposes
    \* --- idle-timeout monitoring
    monitors,             \* _idle_timeout_worker threads alive: id -> record
    idle_timeout_stop,    \* self.idle_timeout_stop.is_set()
    idle_timeout_thread,  \* self.idle_timeout_thread (a monitor id, 0 for None)
    monStarts,            \* idle workers the monitors started since the last
                          \* reset_activity() (its call, its return) or start()
    \* --- the server's profile registry and its import handler
    profiles,             \* server.profiles: name -> Profile (an identity in heap)
    request,              \* thread id -> the request.json of the import it handles
    response,             \* thread id -> the response its last import returned
    calls,                \* thread id -> the direct call of an engine function it
                          \* made last: the function, its arguments, its result
    auto_reconnect_enabled,
    auto_reconnect_stop,  \* threading.Event: TRUE when set
    auto_reconnect_thread, \* "None", or where the worker thread is: "test" (the
                          \* while test), "sleeping", "connect", "blocked", "dead" (returned)
    nSwitches,            \* set_auto_reconnect calls made
    animation,            \* one LEDAnimation object: its kind, stop_event, thread
                          \* (0 for None) and the threads made for it that run
    last_input_port,      \* self.last_input_port (an identifier, or None)
    last_output_port,     \* self.last_output_port
    midi_raw,             \* the midi_raw notifications _mido_callback has emitted:
                          \* how many, and whether the last event went on to
                          \* handle_midi_message
    macro_runs,           \* macro_worker threads: id -> the steps, the position in
                          \* them and the execute_key_combo calls made so far
    key_repeats,          \* key_repeat_worker thread id -> its injections so far
                          \* and those of them whose key_repeat event is not yet
                          \* emitted
    \* --- PersistenceManager
    save_timer,           \* self._save_timer (a Timer id, 0 for None)
    pending_save,         \* self._pending_save
    save_timers,          \* threading.Timer id -> the data it was given and
                          \* where its thread is
    profiles_file,        \* the data written to profiles.json, oldest first
                          \* (empty: no file)
    flushed               \* the data of the saves that were pending when a
                          \* flush_pending_saves() returned

pressVars == <<press_times, long_press_triggered, active_repeats, repeat_stop_events,
               repeatTasks, eventsSet, timers, macros, cb, nPresses, lastPress, released, inj,
               repeatThreads, disconnects, staleActs>>
profVars == <<heap, profile, layer_stack, notified>>
sessVars == <<running, input_port, output_port>>
surfVars == <<led, idle_thread, idle_stop_event, idleWorkers, active_animations, pulses>>
idleFlagVars == <<last_activity_time, idle_animation_triggered>>
callVars == <<threads, profile_lock, nOps>>
connVars == <<connection_lock, conn, openCalls, hungOpens, nConnects, device>>
monThreadVars == <<monitors, idle_timeout_stop, idle_timeout_thread>>
monVars == <<monThreadVars, monStarts>>
importVars == <<profiles, request, response>>
autoVars == <<auto_reconnect_enabled, auto_reconnect_stop, auto_reconnect_thread, nSwitches>>
animVars == <<animation>>
lastVars == <<last_input_port, last_output_port>>
rawVars == <<midi_raw>>
macroRunVars == <<macro_runs>>
repeatLogVars == <<key_repeats>>
saveVars == <<save_timer, pending_save, save_timers, profiles_file, flushed>>
tailVars == <<lastVars, rawVars, macroRunVars, repeatLogVars, saveVars>>
apiVars == <<importVars, calls, autoVars, animVars, tailVars>>

vars == <<now, heap, profile, layer_stack, running, input_port, output_port,
          press_times, long_press_triggered, active_repeats, repeat_stop_events,
          last_activity_time, idle_animation_triggered, idle_thread, idle_stop_event,
          active_animations, led, idleWorkers, pulses, repeatTasks, eventsSet, timers,
          macros, cb, nPresses, lastPress, released, inj, repeatThreads, notified,
          disconnects, staleActs, threads, profile_lock, nOps,
          connection_lock, conn, openCalls, hungOpens, nConnects, device,
          monitors, idle_timeout_stop, idle_timeout_thread, monStarts,
          profiles, request, response, calls, auto_reconnect_enabled,
          auto_reconnect_stop, auto_reconnect_thread, nSwitches, animation,
          last_input_port, last_output_port, midi_raw, macro_runs, key_repeats,
          save_timer, pending_save, save_timers, profiles_file, flushed>>

\* self.layer_stack[-1] (None stands for the IndexError on an empty stack)
Top(stack) == IF stack = <<>> THEN None ELSE stack[Len(stack)]

\* LaunchpadMapper.current_layer
current_layer == Top(layer_stack)

EmptyDict == [n \in {} |-> None]

\* dict.get(k, default)
DictGet(d, k, default) == IF k \in DOMAIN d THEN d[k] ELSE default

(***************************************************************************)
(* The output surface: LEDs, idle animation, pulse animations.             *)
(* S is the record [led, idle_thread, idle_stop_event, idleWorkers,        *)
(* active_animations, pulses] of the surface variables; the operators      *)
(* below give the effect of one call made by a thread that is not          *)
(* interrupted during it.                                                  *)
(***************************************************************************)
Surface == [led |-> led, idle_thread |-> idle_thread, idle_stop_event |-> idle_stop_event,
            idleWorkers |-> idleWorkers, active_animations |-> active_animations,
            pulses |-> pulses]

SetSurface(S) ==
    /\ led' = S.led
    /\ idle_thread' = S.idle_thread
    /\ idle_stop_event' = S.idle_stop_event
    /\ idleWorkers' = S.idleWorkers
    /\ active_animations' = S.active_animations
    /\ pulses' = S.pulses

\* the pads the idle face sequence paints (one frame of _get_smiley_faces)
FaceNotes == {11}
FaceColor == "yellow"

\* LaunchpadMapper.set_pad_color on a set of pads
set_pad_color(l, out, ns, color) ==
    IF out THEN [n \in Notes |-> IF n \in ns THEN color ELSE l[n]] ELSE l

\* LaunchpadMapper.clear_all_pads
clear_all_pads(l, out) == set_pad_color(l, out, Notes, "off")

\* LaunchpadMapper._has_active_mappings
has_active_mappings(p, layer) == DOMAIN get_layer_mappings(p, layer) # {}

\* the painting loop of update_pad_colors over one layer's mappings
PaintMappings(l, out, mappings) ==
    IF out
    THEN [n \in Notes |-> IF n \in DOMAIN mappings /\ mappings[n].enabled
                          THEN mappings[n].color ELSE l[n]]
    ELSE l

\* what a whole-surface repaint of layer `layer` of profile p should show
MappingColours(p, layer) ==
    [n \in Notes |-> LET m == get_mapping(p, n, layer)
                     IN IF m # NoMapping /\ m.enabled THEN m.color ELSE "off"]

\* the idle worker leaving its loop: it turns off the pads of its last frame
IdleCleanup(l, out, w) == IF w.painted THEN set_pad_color(l, out, FaceNotes, "off") ELSE l

\* LaunchpadMapper._stop_idle_animation. joined: the worker ended within the
\* join's timeout (it then has run to its end, cleanup included).
stop_idle_animation(S, out, joined) ==
    IF S.idle_thread = 0 THEN S
    ELSE LET t == S.idle_thread
             alive == t \in DOMAIN S.idleWorkers
             w == S.idleWorkers[t]
         IN IF alive /\ joined
            THEN [S EXCEPT !.idle_stop_event = TRUE, !.idle_thread = 0,
                           !.idleWorkers = DictDel(S.idleWorkers, t),
                           !.led = IdleCleanup(S.led, out,
                                      [painted |-> w.painted \/ w.pc = "frame"])]
            ELSE [S EXCEPT !.idle_stop_event = TRUE, !.idle_thread = 0]

FreeIdleId(S) == CHOOSE i \in 1..(MaxIdleWorkers + 1) :
                    i \notin DOMAIN S.idleWorkers /\ i # S.idle_thread

\* LaunchpadMapper._start_idle_animation
start_idle_animation(S) ==
    IF S.idle_thread # 0 /\ S.idle_thread \in DOMAIN S.idleWorkers THEN S
    ELSE LET t == FreeIdleId(S)
         IN [S EXCEPT !.idle_stop_event = FALSE, !.idle_thread = t,
                      !.idleWorkers = DictSet(S.idleWorkers, t,
                                              [pc |-> "loop", painted |-> FALSE])]

\* LaunchpadMapper.update_pad_colors
update_pad_colors(S, out, p, layer, joined) ==
    LET S1 == stop_idle_animation(S, out, joined)
        S2 == [S1 EXCEPT !.led = clear_all_pads(S1.led, out)]
    IN IF ~has_active_mappings(p, layer)
       THEN (IF out THEN start_idle_animation(S2) ELSE S2)
       ELSE [S2 EXCEPT !.led = PaintMappings(S2.led, out, get_layer_mappings(p, layer))]

\* LEDAnimation.stop on every listed animation, then the list is cleared
\* (LaunchpadMapper.stop_all_animations). joined: as for the idle worker.
stop_all_animations(S, joined) ==
    [S EXCEPT !.active_animations = {},
              !.pulses = IF joined
                         THEN [i \in DOMAIN S.pulses \ S.active_animations |-> S.pulses[i]]
                         ELSE [i \in DOMAIN S.pulses |->
                                 IF i \in S.active_animations
                                 THEN [S.pulses[i] EXCEPT !.stop = TRUE]
                                 ELSE S.pulses[i]]]

\* PulseAnimation.run: steps = 5
PulseSteps == 5

\* the dim colour PulseAnimation.run computes
DimColor(color) == IF color = "off" THEN "off" ELSE "dim"

\* LaunchpadMapper.pulse / start_animation: id is the press that pulses
pulse(S, id, note, color) ==
    [S EXCEPT !.active_animations = S.active_animations \cup {id},
              !.pulses = DictSet(S.pulses, id,
                                 [note |-> note, color |-> color, k |-> 0, stop |-> FALSE])]

\* Outcomes of the bounded joins on the idle worker (1 s) and on a pulse
\* (0.5 s): both workers poll their stop event every 0.05 s or faster, so
\* the join sees the worker end.
JoinOutcomes == {TRUE}

(***************************************************************************)
(* Layer stack operations, as one uninterrupted call (the caller holds     *)
(* profile_lock throughout). L is the record [heap, layer_stack, S,        *)
(* notified].                                                              *)
(***************************************************************************)
\* LaunchpadMapper.notify_layer_change
notify_layer_change(L) ==
    [L EXCEPT !.notified = Append(L.notified, Top(L.layer_stack))]

\* the repaint the layer operations make when an output is connected
RepaintIfOutput(L, prof, out, joined) ==
    IF out
    THEN [L EXCEPT !.S = update_pad_colors(L.S, out, L.heap[prof],
                                           Top(L.layer_stack), joined)]
    ELSE L

\* a pop_layer that pops whenever the stack has a layer
PopGuardNonEmpty(stack) == Len(stack) > 0

\* pop_layer's condition: len(self.layer_stack) > 1
PopGuard(stack) == Len(stack) > 1

\* LaunchpadMapper.push_layer
push_layer(L, prof, out, layer, joined) ==
    LET L1 == [L EXCEPT !.heap[prof] = ensure_layer(L.heap[prof], layer),
                        !.layer_stack = Append(L.layer_stack, layer)]
    IN notify_layer_change(RepaintIfOutput(L1, prof, out, joined))

\* LaunchpadMapper.pop_layer
pop_layer(L, prof, out, joined) ==
    IF PopGuard(L.layer_stack)
    THEN LET L1 == [L EXCEPT !.layer_stack = SubSeq(L.layer_stack, 1, Len(L.layer_stack) - 1)]
         IN notify_layer_change(RepaintIfOutput(L1, prof, out, joined))
    ELSE L

\* LaunchpadMapper.set_layer
set_layer(L, prof, out, layer, joined) ==
    LET L1 == [L EXCEPT !.heap[prof] = ensure_layer(L.heap[prof], layer),
                        !.layer_stack = <<layer>>]
    IN notify_layer_change(RepaintIfOutput(L1, prof, out, joined))

LayerState == [heap |-> heap, layer_stack |-> layer_stack, S |-> Surface,
               notified |-> notified]

SetLayerState(L) ==
    /\ heap' = L.heap
    /\ layer_stack' = L.layer_stack
    /\ notified' = L.notified
    /\ SetSurface(L.S)

(***************************************************************************)
(* Event dispatch (SpecPress)                                              *)
(***************************************************************************)
Velocities == {64}

\* LaunchpadMapper.reset_activity, uninterrupted
reset_activity(S, out, run, p, layer, joined) ==
    LET S1 == stop_idle_animation(S, out, joined)
    IN IF run THEN update_pad_colors(S1, out, p, layer, joined) ELSE S1

\* stop_key_repeat setting an event whether or not the control has one
StopRepeatAlways(R, note) ==
    [events |-> R.events \cup {DictGet(R.stops, note, 0)},
     stops |-> IF note \in DOMAIN R.stops THEN DictDel(R.stops, note) ELSE R.stops,
     active |-> IF note \in DOMAIN R.active THEN DictDel(R.active, note) ELSE R.active]

\* LaunchpadMapper.stop_key_repeat on the two repeat maps and the set events
StopRepeat(R, note) ==
    [events |-> IF note \in DOMAIN R.stops THEN R.events \cup {R.stops[note]} ELSE R.events,
     stops |-> IF note \in DOMAIN R.stops THEN DictDel(R.stops, note) ELSE R.stops,
     active |-> IF note \in DOMAIN R.active THEN DictDel(R.active, note) ELSE R.active]

\* LaunchpadMapper.stop_all_repeats: stop_key_repeat for every key of
\* repeat_stop_events
RECURSIVE StopAll(_, _)
StopAll(R, ns) ==
    IF ns = {} THEN R
    ELSE LET n == CHOOSE x \in ns : TRUE IN StopAll(StopRepeat(R, n), ns \ {n})

\* a stop_all_repeats that sets every stop event and leaves the maps
StopEventsOnly(R) ==
    [R EXCEPT !.events = R.events \cup {R.stops[n] : n \in DOMAIN R.stops}]

stop_all_repeats(R) == StopAll(R, DOMAIN R.stops)

RepeatState == [events |-> eventsSet, stops |-> repeat_stop_events, active |-> active_repeats]

SetRepeatState(R) ==
    /\ eventsSet' = R.events
    /\ repeat_stop_events' = R.stops
    /\ active_repeats' = R.active

StartGuardNone(note, active) == FALSE

\* start_key_repeat's early return: note in self.active_repeats
AlreadyRepeating(note, active) == note \in DOMAIN active

\* LaunchpadMapper.start_key_repeat
start_key_repeat(note, mapping) ==
    IF AlreadyRepeating(note, active_repeats)
    THEN UNCHANGED <<repeat_stop_events, active_repeats, repeatTasks, repeatThreads>>
    ELSE LET t == repeatThreads + 1
         IN /\ repeat_stop_events' = DictSet(repeat_stop_events, note, t)
            /\ active_repeats' = DictSet(active_repeats, note, t)
            /\ repeatTasks' = DictSet(repeatTasks, t,
                                  [note |-> note, pc |-> "delay", event |-> t,
                                   combo |-> mapping.key_combo, epoch |-> disconnects])
            /\ repeatThreads' = t

\* one more injection (or layer action) recorded for press p
Injected(p, what) == [inj EXCEPT ![p][what] = @ + 1]

\* handle_midi_message, note_on with velocity > 0
HandleNoteOn(note, velocity) ==
    /\ cb.pc = "idle"
    /\ profile_lock = 0
    /\ nPresses < MaxPresses
    /\ \E joined \in JoinOutcomes :
        LET id == nPresses + 1
            mapping == get_mapping(heap[profile], note, current_layer)
            S0 == reset_activity(Surface, output_port, running, heap[profile],
                                 current_layer, joined)
            L0 == [LayerState EXCEPT !.S = S0]
            isLayerUp == mapping # NoMapping /\ mapping.enabled /\ mapping.action = "layer_up"
            isLayer == mapping # NoMapping /\ mapping.enabled /\ mapping.action = "layer"
                       /\ mapping.target_layer # None
            isKey == mapping # NoMapping /\ mapping.enabled /\ ~isLayerUp /\ ~isLayer
            isLong == isKey /\ mapping.long_press_enabled /\ mapping.long_press_action # ""
            isMacro == isKey /\ ~isLong /\ mapping.macro_steps # <<>>
            action == IF isKey THEN get_velocity_action(mapping, velocity) ELSE ""
            isNow == isKey /\ ~isLong /\ ~isMacro /\ action # ""
            isRepeat == isKey /\ mapping.repeat_enabled /\ mapping.action = "key"
                        /\ mapping.macro_steps = <<>> /\ ~mapping.long_press_enabled
            L1 == IF isLayerUp THEN pop_layer(L0, profile, output_port, joined)
                  ELSE IF isLayer
                       THEN push_layer(L0, profile, output_port, mapping.target_layer, joined)
                       ELSE L0
            L2 == IF isLayerUp \/ isLayer
                  THEN [L1 EXCEPT !.S = pulse(L1.S, id, note, mapping.color)]
                  ELSE L1
        IN /\ nPresses' = id
           /\ lastPress' = [lastPress EXCEPT ![note] = id]
           /\ released' = released
           /\ last_activity_time' = now
           /\ idle_animation_triggered' = FALSE
           /\ press_times' = DictSet(press_times, note, now)
           /\ long_press_triggered' = DictSet(long_press_triggered, note, FALSE)
           /\ SetLayerState(L2)
           /\ timers' = IF isLong
                        THEN DictSet(timers, id,
                                 [note |-> note, pc |-> "sleep",
                                  wake |-> now + mapping.long_press_threshold,
                                  action |-> mapping.long_press_action,
                                  epoch |-> disconnects])
                        ELSE timers
           /\ macros' = IF isMacro THEN DictSet(macros, id, mapping.macro_steps) ELSE macros
           /\ inj' = IF isNow \/ isMacro THEN Injected(id, "primary")
                     ELSE IF isLayerUp \/ isLayer THEN Injected(id, "layer_action")
                     ELSE inj
           /\ IF isRepeat THEN start_key_repeat(note, mapping)
              ELSE UNCHANGED <<repeat_stop_events, active_repeats, repeatTasks, repeatThreads>>
    /\ UNCHANGED <<callVars, connVars, importVars, calls, autoVars, animVars, monVars, now,
                   profile, sessVars, eventsSet, cb, disconnects, staleActs>>

\* a callback that passes every event on
AlwaysDispatching(r) == TRUE

\* _mido_callback: mapping execution is gated on self.running
Dispatching(r) == r

\* a note_on with velocity > 0 that _mido_callback passes on
HandlePress(note, velocity) ==
    /\ Dispatching(running)
    /\ HandleNoteOn(note, velocity)
    /\ UNCHANGED tailVars

\* handle_midi_message, note_off: the mapping lookup and the short-press test
HandleNoteOff(note) ==
    /\ cb.pc = "idle"
    /\ LET mapping == get_mapping(heap[profile], note, current_layer)
           short == /\ note \in DOMAIN press_times
                    /\ mapping # NoMapping /\ mapping.enabled
                    /\ mapping.long_press_enabled
                    /\ ~DictGet(long_press_triggered, note, FALSE)
                    /\ now - press_times[note] < mapping.long_press_threshold
       IN cb' = [pc |-> IF short THEN "rel_exec" ELSE "rel_cleanup", note |-> note,
                 press |-> lastPress[note],
                 steps |-> IF short THEN mapping.macro_steps ELSE <<>>]
    /\ UNCHANGED <<callVars, connVars, importVars, calls, autoVars, animVars, monVars, now,
                   profVars, sessVars, surfVars, idleFlagVars, press_times,
                   long_press_triggered, active_repeats, repeat_stop_events, repeatTasks,
                   eventsSet, timers, macros, nPresses, lastPress, released, inj, repeatThreads, disconnects, staleActs>>

\* a note_off that _mido_callback passes on
HandleRelease(note) ==
    /\ Dispatching(running)
    /\ HandleNoteOff(note)
    /\ UNCHANGED tailVars

\* handle_midi_message, note_off: the short press executes the regular action
ReleaseExecute ==
    /\ cb.pc = "rel_exec"
    /\ inj' = Injected(cb.press, "primary")
    /\ macros' = IF cb.steps # <<>> THEN DictSet(macros, cb.press, cb.steps) ELSE macros
    /\ cb' = [cb EXCEPT !.pc = "rel_cleanup"]
    /\ UNCHANGED <<callVars, connVars, apiVars, monVars, now, profVars, sessVars, surfVars, idleFlagVars, press_times,
                   long_press_triggered, active_repeats, repeat_stop_events, repeatTasks,
                   eventsSet, timers, nPresses, lastPress, released, repeatThreads,
                   disconnects, staleActs>>

\* handle_midi_message, note_off: cleanup, stop_key_repeat, pad_release event
ReleaseCleanup ==
    /\ cb.pc = "rel_cleanup"
    /\ press_times' = IF cb.note \in DOMAIN press_times
                      THEN DictDel(press_times, cb.note) ELSE press_times
    /\ long_press_triggered' = IF cb.note \in DOMAIN long_press_triggered
                               THEN DictDel(long_press_triggered, cb.note)
                               ELSE long_press_triggered
    /\ SetRepeatState(StopRepeat(RepeatState, cb.note))
    /\ released' = released \cup ({cb.press} \ {0})
    /\ cb' = [pc |-> "idle", note |-> 0, press |-> 0, steps |-> <<>>]
    /\ UNCHANGED <<callVars, connVars, apiVars, monVars, now, profVars, sessVars, surfVars, idleFlagVars, repeatTasks, timers,
                   macros, nPresses, lastPress, inj, repeatThreads,
                   disconnects, staleActs>>

\* check_long_press: the sleep ends and the test is made
TimerWake(p) ==
    /\ p \in DOMAIN timers
    /\ timers[p].pc = "sleep"
    /\ now >= timers[p].wake
    /\ LET n == timers[p].note
           fire == n \in DOMAIN press_times /\ ~DictGet(long_press_triggered, n, FALSE)
       IN timers' = IF fire THEN [timers EXCEPT ![p].pc = "mark"] ELSE DictDel(timers, p)
    /\ UNCHANGED <<callVars, connVars, apiVars, monVars, now, profVars, sessVars, surfVars, idleFlagVars, press_times,
                   long_press_triggered, active_repeats, repeat_stop_events, repeatTasks,
                   eventsSet, macros, cb, nPresses, lastPress, released, inj, repeatThreads, disconnects, staleActs>>

\* check_long_press: self.long_press_triggered[note] = True
TimerMark(p) ==
    /\ p \in DOMAIN timers
    /\ timers[p].pc = "mark"
    /\ long_press_triggered' = DictSet(long_press_triggered, timers[p].note, TRUE)
    /\ timers' = [timers EXCEPT ![p].pc = "inject"]
    /\ UNCHANGED <<callVars, connVars, apiVars, monVars, now, profVars, sessVars, surfVars, idleFlagVars, press_times,
                   active_repeats, repeat_stop_events, repeatTasks, eventsSet, macros, cb,
                   nPresses, lastPress, released, inj, repeatThreads, disconnects,
                   staleActs>>

\* check_long_press: execute_key_combo(long_press_action) and the long_press event
TimerInject(p) ==
    /\ p \in DOMAIN timers
    /\ timers[p].pc = "inject"
    /\ inj' = Injected(p, "alt")
    /\ staleActs' = IF timers[p].epoch < disconnects THEN staleActs \cup {"long_press"}
                    ELSE staleActs
    /\ timers' = DictDel(timers, p)
    /\ UNCHANGED <<callVars, connVars, apiVars, monVars, now, profVars, sessVars, surfVars, idleFlagVars, press_times,
                   long_press_triggered, active_repeats, repeat_stop_events, repeatTasks,
                   eventsSet, macros, cb, nPresses, lastPress, released, repeatThreads,
                   disconnects>>

\* key_repeat_worker: a stop_event.wait (initial delay or interval) returns,
\* or the loop test is made
RepeatAdvance(t) ==
    /\ t \in DOMAIN repeatTasks
    /\ repeatTasks[t].pc \in {"delay", "loop", "wait"}
    /\ repeatTasks' = IF repeatTasks[t].event \in eventsSet
                      THEN DictDel(repeatTasks, t)
                      ELSE [repeatTasks EXCEPT ![t].pc =
                              IF @ = "loop" THEN "inject" ELSE "loop"]
    /\ UNCHANGED <<callVars, connVars, apiVars, monVars, now, profVars, sessVars, surfVars, idleFlagVars, press_times,
                   long_press_triggered, active_repeats, repeat_stop_events, eventsSet,
                   timers, macros, cb, nPresses, lastPress, released, inj, repeatThreads,
                   disconnects, staleActs>>

\* key_repeat_worker: execute_key_combo(key_combo) and the key_repeat event
RepeatInject(t) ==
    /\ t \in DOMAIN repeatTasks
    /\ repeatTasks[t].pc = "inject"
    /\ staleActs' = IF repeatTasks[t].epoch < disconnects THEN staleActs \cup {"key_repeat"}
                    ELSE staleActs
    /\ repeatTasks' = [repeatTasks EXCEPT ![t].pc = "wait"]
    /\ UNCHANGED <<callVars, connVars, apiVars, monVars, now, profVars, sessVars, surfVars, idleFlagVars, press_times,
                   long_press_triggered, active_repeats, repeat_stop_events, eventsSet,
                   timers, macros, cb, nPresses, lastPress, released, inj, repeatThreads,
                   disconnects>>

\* macro_worker: one step of the macro (its key combo, then its delay)
MacroStep(p) ==
    /\ p \in DOMAIN macros
    /\ macros' = IF Len(macros[p]) = 1 THEN DictDel(macros, p)
                 ELSE [macros EXCEPT ![p] = Tail(@)]
    /\ UNCHANGED <<callVars, connVars, apiVars, monVars, now, profVars, sessVars, surfVars, idleFlagVars, press_times,
                   long_press_triggered, active_repeats, repeat_stop_events, repeatTasks,
                   eventsSet, timers, cb, nPresses, lastPress, released, inj, repeatThreads, disconnects, staleActs>>

\* PulseAnimation.run: one paint (bright on even steps, dim on odd), or the
\* end of the thread
PulseStep(i) ==
    /\ i \in DOMAIN pulses
    /\ LET a == pulses[i]
       IN IF a.stop \/ a.k = 2 * PulseSteps
          THEN /\ pulses' = DictDel(pulses, i)
               /\ led' = led
          ELSE /\ pulses' = [pulses EXCEPT ![i].k = @ + 1]
               /\ led' = set_pad_color(led, output_port, {a.note},
                                       IF a.k % 2 = 0 THEN a.color ELSE DimColor(a.color))
    /\ UNCHANGED <<callVars, connVars, apiVars, monVars, now, profVars, sessVars, idleFlagVars, idle_thread, idle_stop_event,
                   idleWorkers, active_animations, pressVars>>

\* _idle_animation_worker: the loop test; one frame; or the cleanup at the end
IdleWorkerStep(w) ==
    /\ w \in DOMAIN idleWorkers
    /\ LET r == idleWorkers[w]
       IN IF r.pc = "loop"
          THEN IF ~idle_stop_event /\ output_port /\ running
               THEN /\ idleWorkers' = [idleWorkers EXCEPT ![w].pc = "frame"]
                    /\ led' = led
               ELSE /\ idleWorkers' = DictDel(idleWorkers, w)
                    /\ led' = IdleCleanup(led, output_port, r)
          ELSE /\ idleWorkers' = [idleWorkers EXCEPT ![w] =
                                    [pc |-> "loop", painted |-> TRUE]]
               /\ led' = set_pad_color(led, output_port, FaceNotes, FaceColor)
    /\ UNCHANGED <<callVars, connVars, apiVars, monVars, now, profVars, sessVars, idleFlagVars, idle_thread, idle_stop_event,
                   active_animations, pulses, pressVars>>

\* the clock. A tick is long against the calls of the request threads and
\* against one check of a monitor: none of them is under way across a tick.
Tick ==
    /\ now < MaxTime
    /\ \A t \in DOMAIN threads : threads[t].pc = "idle"
    /\ \A m \in DOMAIN monitors : monitors[m].pc = "sleeping"
    /\ now' = now + 1
    /\ UNCHANGED <<callVars, connVars, apiVars, monVars, profVars, sessVars, surfVars, idleFlagVars, pressVars>>

\* The idle-timeout monitor threads. M is the record [monitors,
\* idle_timeout_stop, idle_timeout_thread].
Monitoring == [monitors |-> monitors, idle_timeout_stop |-> idle_timeout_stop,
               idle_timeout_thread |-> idle_timeout_thread]

SetMonitoring(M) ==
    /\ monitors' = M.monitors
    /\ idle_timeout_stop' = M.idle_timeout_stop
    /\ idle_timeout_thread' = M.idle_timeout_thread

\* Outcomes of join(timeout=1) on a monitor that is in its sleep(5): it
\* wakes within the second (and then sees the stop event and ends), or not.
MonitorJoinOutcomes == {TRUE, FALSE}

\* LaunchpadMapper._stop_idle_timeout_tracking
stop_idle_timeout_tracking(M, joined) ==
    LET t == M.idle_timeout_thread
    IN IF t = 0 THEN [M EXCEPT !.idle_timeout_stop = TRUE]
       ELSE IF t \in DOMAIN M.monitors /\ joined
       THEN [M EXCEPT !.idle_timeout_stop = TRUE, !.idle_timeout_thread = 0,
                      !.monitors = DictDel(M.monitors, t)]
       ELSE [M EXCEPT !.idle_timeout_stop = TRUE, !.idle_timeout_thread = 0]

FreeMonitorId(M) == CHOOSE i \in 1..(MaxDisconnects + 1) : i \notin DOMAIN M.monitors

\* LaunchpadMapper._start_idle_timeout_tracking
start_idle_timeout_tracking(M) ==
    IF M.idle_timeout_thread # 0 /\ M.idle_timeout_thread \in DOMAIN M.monitors THEN M
    ELSE LET t == FreeMonitorId(M)
         IN [M EXCEPT !.idle_timeout_stop = FALSE, !.idle_timeout_thread = t,
                      !.monitors = DictSet(M.monitors, t, [pc |-> "sleeping"])]

\* LaunchpadMapper.stop followed by the rest of disconnect, uninterrupted,
\* called while the monitors are in their sleep(5)
PressDisconnect ==
    /\ disconnects < MaxDisconnects
    /\ \A m \in DOMAIN monitors : monitors[m].pc = "sleeping"
    /\ \E joined \in JoinOutcomes :
        LET S1 == stop_idle_animation(stop_all_animations(Surface, joined),
                                      output_port, joined)
        IN SetSurface([S1 EXCEPT !.led = clear_all_pads(S1.led, output_port)])
    /\ running' = FALSE
    /\ SetRepeatState(stop_all_repeats(RepeatState))
    /\ input_port' = FALSE
    /\ output_port' = FALSE
    /\ disconnects' = disconnects + 1
    /\ \E joined \in MonitorJoinOutcomes :
         SetMonitoring(stop_idle_timeout_tracking(Monitoring, joined))
    /\ UNCHANGED <<callVars, connVars, apiVars, monStarts, now, profVars, idleFlagVars, press_times, long_press_triggered,
                   repeatTasks, timers, macros, cb, nPresses, lastPress, released, inj, repeatThreads, staleActs>>

\* LaunchpadMapper.connect with no port open, both ports opening at the
\* first attempt
PressConnect ==
    /\ ~input_port /\ ~output_port
    /\ input_port' = TRUE
    /\ output_port' = TRUE
    /\ \E joined \in JoinOutcomes :
        SetSurface(update_pad_colors(Surface, TRUE, heap[profile], current_layer, joined))
    /\ UNCHANGED <<callVars, connVars, apiVars, monVars, now, profVars, running, idleFlagVars, pressVars>>

\* LaunchpadMapper.start
PressStart ==
    /\ ~running
    /\ input_port
    /\ running' = TRUE
    /\ last_activity_time' = now
    /\ SetMonitoring(start_idle_timeout_tracking(Monitoring))
    /\ monStarts' = 0
    /\ \E joined \in JoinOutcomes :
        SetSurface(update_pad_colors(Surface, output_port, heap[profile],
                                     current_layer, joined))
    /\ UNCHANGED <<callVars, connVars, apiVars, now, profVars, input_port, output_port,
                   idle_animation_triggered, pressVars>>

\* The mappings of the dispatch specification: a long-press key, a
\* repeating key, a layer push with its layer-up, a macro, a push to a
\* layer with no mapping.
LongPressKey(note) ==
    [PadMapping(note, "a", "green") EXCEPT !.long_press_enabled = TRUE,
                                           !.long_press_action = "b"]
RepeatKey(note) == [PadMapping(note, "c", "red") EXCEPT !.repeat_enabled = TRUE]
LayerPush(note, layer) ==
    [PadMapping(note, "", "blue") EXCEPT !.action = "layer", !.target_layer = layer]
LayerUp(note) == [PadMapping(note, "", "blue") EXCEPT !.action = "layer_up"]
MacroKey(note) ==
    [PadMapping(note, "d", "red") EXCEPT
        !.macro_steps = <<[key_combo |-> "m1", delay_after |-> 0],
                          [key_combo |-> "m2", delay_after |-> 1]>>]

PressProfiles ==
    { add_mapping(add_mapping(NewProfile("Default", "Base"),
                              LongPressKey(11), "Base"), RepeatKey(12), "Base"),
      add_mapping(add_mapping(add_mapping(NewProfile("Default", "Base"),
                              LongPressKey(11), "Base"), LayerPush(12, "FX"), "Base"),
                  LayerUp(12), "FX"),
      add_mapping(add_mapping(NewProfile("Default", "Base"),
                              [LongPressKey(11) EXCEPT !.macro_steps = MacroKey(11).macro_steps],
                              "Base"), MacroKey(12), "Base"),
      add_mapping(ensure_layer(NewProfile("Default", "Base"), "FX"),
                  LayerPush(12, "FX"), "Base") }

\* the threads that call into the engine, and a thread that is in no call
Threads == 1..MaxThreads
NoPost == [seen |-> FALSE, animation |-> FALSE, flag |-> FALSE, leds |-> TRUE]
AtRest == [pc |-> "idle", op |-> None, mp |-> 0, ml |-> None, layer |-> None,
           post |-> NoPost]

\* a request thread that handles no import, and one that has returned no
\* response
NoRequest == [json |-> JNull, size |-> 0, validated |-> None, warnings |-> <<>>,
              created |-> 0]
NoResponse == [status |-> 0, success |-> FALSE, error |-> "", field |-> None,
               profile |-> None, names |-> {}, warnings |-> <<>>]

\* the threads that call connect() and disconnect(): the request threads and
\* the auto-reconnect worker
AutoThread == MaxThreads + 1
ConnThreads == Threads \cup {AutoThread}
ConnRest == [pc |-> "idle", op |-> None, attempt |-> 0, retries |-> 0,
             input_port |-> None, output_port |-> None,
             detected_input |-> None, detected_output |-> None,
             entry_last |-> <<None, None>>,
             inner |-> FALSE, result |-> None, errors |-> 0,
             reported |-> [input_connected |-> FALSE, output_connected |-> FALSE]]

\* the ports a device exposes
BothPorts == {"in", "out"}
Devices == {BothPorts, {"in"}}

\* no LEDAnimation object constructed yet
NoAnimationObject == [kind |-> None, stop_event |-> FALSE, thread |-> 0,
                      tasks |-> EmptyDict, spawned |-> 0]

\* LaunchpadMapper.__init__ on the first profile of one of the heaps of Hs
Constructed(Hs) ==
    /\ now = 0
    /\ \E h \in Hs : heap = h
    /\ threads = [t \in Threads |-> AtRest]
    /\ profile_lock = 0
    /\ nOps = 0
    /\ connection_lock = 0
    /\ conn = [c \in ConnThreads |-> ConnRest]
    /\ openCalls = 0
    /\ hungOpens = 0
    /\ nConnects = 0
    /\ profile = 1
    /\ layer_stack = <<"Base">>
    /\ press_times = EmptyDict
    /\ long_press_triggered = EmptyDict
    /\ active_repeats = EmptyDict
    /\ repeat_stop_events = EmptyDict
    /\ last_activity_time = 0
    /\ idle_animation_triggered = FALSE
    /\ idle_thread = 0
    /\ idle_stop_event = FALSE
    /\ active_animations = {}
    /\ idleWorkers = EmptyDict
    /\ pulses = EmptyDict
    /\ repeatTasks = EmptyDict
    /\ eventsSet = {}
    /\ timers = EmptyDict
    /\ macros = EmptyDict
    /\ cb = [pc |-> "idle", note |-> 0, press |-> 0, steps |-> <<>>]
    /\ nPresses = 0
    /\ lastPress = [n \in Notes |-> 0]
    /\ released = {}
    /\ inj = [p \in 1..MaxPresses |-> [primary |-> 0, alt |-> 0, layer_action |-> 0]]
    /\ repeatThreads = 0
    /\ notified = <<>>
    /\ disconnects = 0
    /\ staleActs = {}
    /\ idle_timeout_stop = FALSE
    /\ monStarts = 0
    /\ profiles = [name \in {heap[i].name : i \in DOMAIN heap} |->
                      CHOOSE i \in DOMAIN heap : heap[i].name = name]
    /\ request = [t \in Threads |-> NoRequest]
    /\ response = [t \in Threads |-> NoResponse]
    /\ auto_reconnect_enabled = FALSE
    /\ auto_reconnect_stop = FALSE
    /\ auto_reconnect_thread = "None"
    /\ nSwitches = 0
    /\ animation = NoAnimationObject
    /\ last_input_port = None
    /\ last_output_port = None
    /\ midi_raw = [n |-> 0, handled |-> FALSE]
    /\ macro_runs = EmptyDict
    /\ key_repeats = [t \in 1..MaxPresses |-> [injected |-> 0, owed |-> 0]]
    /\ save_timer = 0
    /\ pending_save = FALSE
    /\ save_timers = <<>>
    /\ profiles_file = <<>>
    /\ flushed = {}

\* the engine constructed, then connected to a device with both ports and
\* started
Connected(Hs) ==
    /\ Constructed(Hs)
    /\ device = BothPorts
    /\ running = TRUE
    /\ input_port = TRUE
    /\ output_port = TRUE
    /\ led = MappingColours(heap[1], "Base")
    /\ monitors = [m \in {1} |-> [pc |-> "sleeping"]]
    /\ idle_timeout_thread = 1

\* no direct call made yet
NoCall == [fn |-> "", note |-> 0, mapping |-> NoMapping, velocity |-> 0,
           returned |-> FALSE, result |-> None]

InitOn(Hs) ==
    /\ Connected(Hs)
    /\ calls = [t \in Threads |-> NoCall]

InitPress == InitOn({<<p>> : p \in PressProfiles})

NextPress ==
    \/ \E n \in Notes, v \in Velocities : HandlePress(n, v)
    \/ \E n \in Notes : HandleRelease(n)
    \/ ReleaseExecute
    \/ ReleaseCleanup
    \/ \E p \in 1..MaxPresses : TimerWake(p)
    \/ \E p \in 1..MaxPresses : TimerMark(p)
    \/ \E p \in 1..MaxPresses : TimerInject(p)
    \/ \E t \in 1..MaxPresses : RepeatAdvance(t)
    \/ \E t \in 1..MaxPresses : RepeatInject(t)
    \/ \E p \in 1..MaxPresses : MacroStep(p)
    \/ \E i \in 1..MaxPresses : PulseStep(i)
    \/ \E w \in 1..(MaxIdleWorkers + 1) : IdleWorkerStep(w)
    \/ Tick
    \/ PressDisconnect
    \/ PressConnect
    \/ PressStart

SpecPress == InitPress /\ [][NextPress]_vars

(***************************************************************************)
(* SpecRepeat: the dispatch engine on a profile of plain and repeating     *)
(* keys (no long-press timer, macro or layer action can then start)        *)
(***************************************************************************)
RepeatProfiles ==
    { add_mapping(add_mapping(NewProfile("Default", "Base"),
                              RepeatKey(11), "Base"), PadMapping(12, "e", "green"), "Base"),
      add_mapping(add_mapping(NewProfile("Default", "Base"),
                              RepeatKey(11), "Base"), RepeatKey(12), "Base") }

InitRepeat == InitOn({<<p>> : p \in RepeatProfiles})

NextRepeat ==
    \/ \E n \in Notes, v \in Velocities : HandlePress(n, v)
    \/ \E n \in Notes : HandleRelease(n)
    \/ ReleaseCleanup
    \/ \E t \in 1..MaxPresses : RepeatAdvance(t)
    \/ \E t \in 1..MaxPresses : RepeatInject(t)
    \/ PressDisconnect
    \/ PressConnect
    \/ PressStart

SpecRepeat == InitRepeat /\ [][NextRepeat]_vars

(***************************************************************************)
(* SpecLayer: threads calling the layer operations, reset_activity and the *)
(* server's save_mapping concurrently. A layer operation holds             *)
(* profile_lock from its first statement to its last; reset_activity and   *)
(* save_mapping take no lock. update_pad_colors is three steps: stop the   *)
(* idle animation and clear; read the layer's mappings; paint them.        *)
(***************************************************************************)
LayerNames == {"Base", "FX"}

\* leaving update_pad_colors: back in the layer operation (which notifies
\* and releases the lock), or the call is over
AfterRepaint(t) == IF profile_lock = t THEN "notify"
                   ELSE IF threads[t].op = "reset_activity" THEN "ra_return"
                   ELSE "idle"

\* the layer operations' `if self.output_port: self.update_pad_colors()`
RepaintOrNotify == IF output_port THEN "upc_stop" ELSE "notify"

Begin(t) ==
    /\ threads[t].pc = "idle"
    /\ nOps < MaxOps
    /\ nOps' = nOps + 1

\* push_layer: lock, ensure_layer, append
PushLayer(t, layer) ==
    /\ Begin(t)
    /\ profile_lock = 0
    /\ profile_lock' = t
    /\ heap' = [heap EXCEPT ![profile] = ensure_layer(@, layer)]
    /\ layer_stack' = Append(layer_stack, layer)
    /\ threads' = [threads EXCEPT ![t] = [AtRest EXCEPT !.pc = RepaintOrNotify,
                                                        !.op = "push_layer"]]
    /\ UNCHANGED <<connVars, apiVars, monVars, now, profile, notified, sessVars, surfVars, idleFlagVars, pressVars>>

\* pop_layer: lock, test, pop (the lock is released at once when the test fails)
PopLayer(t) ==
    /\ Begin(t)
    /\ profile_lock = 0
    /\ IF PopGuard(layer_stack)
       THEN /\ profile_lock' = t
            /\ layer_stack' = SubSeq(layer_stack, 1, Len(layer_stack) - 1)
            /\ threads' = [threads EXCEPT ![t] = [AtRest EXCEPT !.pc = RepaintOrNotify,
                                                                !.op = "pop_layer"]]
       ELSE /\ UNCHANGED <<profile_lock, layer_stack>>
            /\ threads' = [threads EXCEPT ![t] = [AtRest EXCEPT !.op = "pop_layer"]]
    /\ UNCHANGED <<connVars, apiVars, monVars, now, heap, profile, notified, sessVars, surfVars, idleFlagVars,
                   pressVars>>

\* set_layer: lock, ensure_layer, replace the stack
SetLayer(t, layer) ==
    /\ Begin(t)
    /\ profile_lock = 0
    /\ profile_lock' = t
    /\ heap' = [heap EXCEPT ![profile] = ensure_layer(@, layer)]
    /\ layer_stack' = <<layer>>
    /\ threads' = [threads EXCEPT ![t] = [AtRest EXCEPT !.pc = RepaintOrNotify,
                                                        !.op = "set_layer"]]
    /\ UNCHANGED <<connVars, apiVars, monVars, now, profile, notified, sessVars, surfVars, idleFlagVars, pressVars>>

\* set_profile: lock, self.profile = profile
SetProfile(t, p) ==
    /\ Begin(t)
    /\ profile_lock = 0
    /\ profile_lock' = t
    /\ profile' = p
    /\ threads' = [threads EXCEPT ![t] = [AtRest EXCEPT !.pc = "sp_stack",
                                                        !.op = "set_profile"]]
    /\ UNCHANGED <<connVars, apiVars, monVars, now, heap, layer_stack, notified, sessVars, surfVars, idleFlagVars,
                   pressVars>>

\* set_profile: self.layer_stack = [profile.base_layer]
SetProfileStack(t) ==
    /\ threads[t].pc = "sp_stack"
    /\ layer_stack' = <<heap[profile].base_layer>>
    /\ threads' = [threads EXCEPT ![t].pc = RepaintOrNotify]
    /\ UNCHANGED <<connVars, apiVars, monVars, now, heap, profile, notified, profile_lock, nOps, sessVars, surfVars,
                   idleFlagVars, pressVars>>

\* update_pad_colors: _stop_idle_animation(), clear_all_pads()
UpcStop(t) ==
    /\ threads[t].pc = "upc_stop"
    /\ \E joined \in JoinOutcomes :
         LET S1 == stop_idle_animation(Surface, output_port, joined)
         IN SetSurface([S1 EXCEPT !.led = clear_all_pads(S1.led, output_port)])
    /\ threads' = [threads EXCEPT ![t].pc = "upc_read"]
    /\ UNCHANGED <<connVars, apiVars, monVars, now, profVars, profile_lock, nOps, sessVars, idleFlagVars, pressVars>>

\* update_pad_colors: mappings = ...get_layer_mappings(self.current_layer),
\* and the branch on _has_active_mappings()
UpcRead(t) ==
    /\ threads[t].pc = "upc_read"
    /\ IF ~has_active_mappings(heap[profile], current_layer)
       THEN /\ SetSurface(IF output_port THEN start_idle_animation(Surface) ELSE Surface)
            /\ threads' = [threads EXCEPT ![t].pc = AfterRepaint(t)]
       ELSE /\ UNCHANGED surfVars
            /\ threads' = [threads EXCEPT ![t].pc = "upc_paint", ![t].mp = profile,
                                          ![t].ml = LayerName(heap[profile], current_layer)]
    /\ UNCHANGED <<connVars, apiVars, monVars, now, profVars, profile_lock, nOps, sessVars, idleFlagVars, pressVars>>

\* update_pad_colors: the loop over mappings.items() (the dict read at the
\* previous step, as it is now)
UpcPaint(t) ==
    /\ threads[t].pc = "upc_paint"
    /\ led' = PaintMappings(led, output_port,
                            get_layer_mappings(heap[threads[t].mp], threads[t].ml))
    /\ threads' = [threads EXCEPT ![t].pc = AfterRepaint(t), ![t].mp = 0, ![t].ml = None]
    /\ UNCHANGED <<connVars, apiVars, monVars, now, profVars, profile_lock, nOps, sessVars, idleFlagVars, pressVars,
                   idle_thread, idle_stop_event, idleWorkers, active_animations, pulses>>

\* a notification that names the base layer of the profile
BaseLayerEvent == heap[profile].base_layer

\* notify_layer_change: the event's "current_layer"
layer_change_event == current_layer

\* the end of a layer operation: notify_layer_change(), release the lock
\* (import_profile goes on after its set_profile)
Notify(t) ==
    /\ threads[t].pc = "notify"
    /\ notified' = Append(notified, layer_change_event)
    /\ profile_lock' = 0
    /\ threads' = [threads EXCEPT ![t].pc = IF threads[t].op = "import_profile"
                                             THEN "im_respond" ELSE "idle"]
    /\ UNCHANGED <<connVars, apiVars, monVars, now, heap, profile, layer_stack, nOps, sessVars, surfVars,
                   idleFlagVars, pressVars>>

\* reset_activity: last_activity_time = time.time(), _stop_idle_animation()
ResetActivity(t) ==
    /\ Begin(t)
    /\ last_activity_time' = now
    /\ \E joined \in JoinOutcomes :
         SetSurface(stop_idle_animation(Surface, output_port, joined))
    /\ threads' = [threads EXCEPT ![t] = [AtRest EXCEPT !.pc = "ra_flag",
                                                        !.op = "reset_activity"]]
    /\ monStarts' = 0
    /\ UNCHANGED <<connVars, apiVars, monThreadVars, now, profVars, profile_lock, sessVars,
                   idle_animation_triggered, pressVars>>

\* reset_activity: idle_animation_triggered = False; if self.running: ...
ResetFlag(t) ==
    /\ threads[t].pc = "ra_flag"
    /\ idle_animation_triggered' = FALSE
    /\ threads' = [threads EXCEPT ![t].pc = IF running THEN "upc_stop" ELSE "ra_return"]
    /\ UNCHANGED <<connVars, apiVars, monVars, now, profVars, profile_lock, nOps, sessVars, surfVars,
                   last_activity_time, pressVars>>

\* an enabled mapping exists in the current layer
HasEnabledMapping ==
    \E n \in Notes : LET m == get_mapping(heap[profile], n, current_layer)
                     IN m # NoMapping /\ m.enabled

\* reset_activity returns. post records what holds at that instant (seen:
\* the engine is running with an output and the current layer has an
\* enabled mapping).
ResetReturn(t) ==
    /\ threads[t].pc = "ra_return"
    /\ threads' = [threads EXCEPT ![t].pc = "idle",
                      ![t].post = [seen |-> running /\ output_port /\ HasEnabledMapping,
                                   animation |-> idleWorkers # EmptyDict,
                                   flag |-> idle_animation_triggered,
                                   leds |-> led = MappingColours(heap[profile],
                                                                 current_layer)]]
    /\ monStarts' = 0
    /\ UNCHANGED <<connVars, apiVars, monThreadVars, now, profVars, profile_lock, nOps, sessVars,
                   surfVars, idleFlagVars, pressVars>>

\* server.save_mapping: layer = data.get("layer") or mapper.current_layer,
\* mapper.profile.add_mapping(mapping, layer=layer)
SaveMapping(t, mapping, layer) ==
    /\ Begin(t)
    /\ LET l == IF layer = None THEN current_layer ELSE layer
       IN /\ heap' = [heap EXCEPT ![profile] = add_mapping(@, mapping, l)]
          /\ threads' = [threads EXCEPT ![t] = [AtRest EXCEPT !.pc = "sm_check",
                                                              !.op = "save_mapping",
                                                              !.layer = l]]
    /\ UNCHANGED <<connVars, apiVars, monVars, now, profile, layer_stack, notified, profile_lock, sessVars, surfVars,
                   idleFlagVars, pressVars>>

\* server.save_mapping: if mapper.running and layer == mapper.current_layer
SaveCheck(t) ==
    /\ threads[t].pc = "sm_check"
    /\ threads' = [threads EXCEPT ![t].pc =
                      IF running /\ threads[t].layer = current_layer
                      THEN "upc_stop" ELSE "idle"]
    /\ UNCHANGED <<connVars, apiVars, monVars, now, profVars, profile_lock, nOps, sessVars, surfVars, idleFlagVars,
                   pressVars>>

\* the two profiles of the server's registry, and the mapping a client saves
LayerHeap ==
    << add_mapping(add_mapping(add_mapping(NewProfile("Default", "Base"),
                       PadMapping(11, "a", "green"), "Base"),
                       [PadMapping(12, "b", "red") EXCEPT !.enabled = FALSE], "Base"),
                   PadMapping(11, "f", "blue"), "FX"),
       add_mapping(NewProfile("Second", "Base"), PadMapping(12, "e", "red"), "Base") >>

SavedMappings == {PadMapping(12, "s", "green")}

\* the identities of the registry's profiles
ProfileIds == DOMAIN LayerHeap

InitLayer == InitOn({LayerHeap})

NextLayer ==
    \/ \E t \in Threads, l \in LayerNames : PushLayer(t, l)
    \/ \E t \in Threads : PopLayer(t)
    \/ \E t \in Threads, l \in LayerNames : SetLayer(t, l)
    \/ \E t \in Threads, p \in ProfileIds : SetProfile(t, p)
    \/ \E t \in Threads : SetProfileStack(t)
    \/ \E t \in Threads : UpcStop(t)
    \/ \E t \in Threads : UpcRead(t)
    \/ \E t \in Threads : UpcPaint(t)
    \/ \E t \in Threads : Notify(t)
    \/ \E t \in Threads : ResetActivity(t)
    \/ \E t \in Threads : ResetFlag(t)
    \/ \E t \in Threads : ResetReturn(t)
    \/ \E t \in Threads, m \in SavedMappings : SaveMapping(t, m, None)
    \/ \E t \in Threads : SaveCheck(t)
    \/ \E w \in 1..(MaxIdleWorkers + 1) : IdleWorkerStep(w)

SpecLayer == InitLayer /\ [][NextLayer]_vars

(***************************************************************************)
(* SpecLayerPlain: the layer operations of src/launchpad_mapper.py, the    *)
(* module server.py imports. They take no lock; each statement is a step.  *)
(***************************************************************************)
PlainPushLayer(t, layer) ==
    /\ Begin(t)
    /\ heap' = [heap EXCEPT ![profile] = ensure_layer(@, layer)]
    /\ layer_stack' = Append(layer_stack, layer)
    /\ threads' = [threads EXCEPT ![t] = [AtRest EXCEPT !.pc = "plain_repaint",
                                                        !.op = "push_layer"]]
    /\ UNCHANGED <<connVars, apiVars, monVars, now, profile, notified, profile_lock, sessVars, surfVars,
                   idleFlagVars, pressVars>>

\* pop_layer: if len(self.layer_stack) > 1
PlainPopTest(t) ==
    /\ Begin(t)
    /\ threads' = [threads EXCEPT ![t] =
                      [AtRest EXCEPT !.pc = IF PopGuard(layer_stack) THEN "plain_pop"
                                                                     ELSE "idle",
                                     !.op = "pop_layer"]]
    /\ UNCHANGED <<connVars, apiVars, monVars, now, profVars, profile_lock, sessVars, surfVars, idleFlagVars,
                   pressVars>>

\* pop_layer: self.layer_stack.pop() (IndexError on an empty list ends the call)
PlainPop(t) ==
    /\ threads[t].pc = "plain_pop"
    /\ IF layer_stack = <<>>
       THEN /\ UNCHANGED layer_stack
            /\ threads' = [threads EXCEPT ![t].pc = "idle"]
       ELSE /\ layer_stack' = SubSeq(layer_stack, 1, Len(layer_stack) - 1)
            /\ threads' = [threads EXCEPT ![t].pc = "plain_repaint"]
    /\ UNCHANGED <<connVars, apiVars, monVars, now, heap, profile, notified, profile_lock, nOps, sessVars, surfVars,
                   idleFlagVars, pressVars>>

PlainSetLayer(t, layer) ==
    /\ Begin(t)
    /\ heap' = [heap EXCEPT ![profile] = ensure_layer(@, layer)]
    /\ layer_stack' = <<layer>>
    /\ threads' = [threads EXCEPT ![t] = [AtRest EXCEPT !.pc = "plain_repaint",
                                                        !.op = "set_layer"]]
    /\ UNCHANGED <<connVars, apiVars, monVars, now, profile, notified, profile_lock, sessVars, surfVars,
                   idleFlagVars, pressVars>>

\* set_profile: self.profile = profile
PlainSetProfile(t, p) ==
    /\ Begin(t)
    /\ profile' = p
    /\ threads' = [threads EXCEPT ![t] = [AtRest EXCEPT !.pc = "plain_stack",
                                                        !.op = "set_profile"]]
    /\ UNCHANGED <<connVars, apiVars, monVars, now, heap, layer_stack, notified, profile_lock, sessVars, surfVars,
                   idleFlagVars, pressVars>>

\* set_profile: self.layer_stack = [profile.base_layer]
PlainSetProfileStack(t) ==
    /\ threads[t].pc = "plain_stack"
    /\ layer_stack' = <<heap[profile].base_layer>>
    /\ threads' = [threads EXCEPT ![t].pc = "plain_repaint"]
    /\ UNCHANGED <<connVars, apiVars, monVars, now, heap, profile, notified, profile_lock, nOps, sessVars, surfVars,
                   idleFlagVars, pressVars>>

\* if self.running: self.update_pad_colors() (current_layer raises IndexError
\* on an empty stack, which ends the call)
PlainRepaint(t) ==
    /\ threads[t].pc = "plain_repaint"
    /\ IF ~running
       THEN /\ UNCHANGED led
            /\ threads' = [threads EXCEPT ![t].pc = "plain_notify"]
       ELSE IF layer_stack = <<>>
       THEN /\ led' = clear_all_pads(led, output_port)
            /\ threads' = [threads EXCEPT ![t].pc = "idle"]
       ELSE /\ led' = PaintMappings(clear_all_pads(led, output_port), output_port,
                                    get_layer_mappings(heap[profile], current_layer))
            /\ threads' = [threads EXCEPT ![t].pc = "plain_notify"]
    /\ UNCHANGED <<connVars, apiVars, monVars, now, profVars, profile_lock, nOps, sessVars, idleFlagVars, pressVars,
                   idle_thread, idle_stop_event, idleWorkers, active_animations, pulses>>

\* self.notify_layer_change() (it reads current_layer)
PlainNotify(t) ==
    /\ threads[t].pc = "plain_notify"
    /\ notified' = IF layer_stack = <<>> THEN notified ELSE Append(notified, current_layer)
    /\ threads' = [threads EXCEPT ![t].pc = "idle"]
    /\ UNCHANGED <<connVars, apiVars, monVars, now, heap, profile, layer_stack, profile_lock, nOps, sessVars,
                   surfVars, idleFlagVars, pressVars>>

NextLayerPlain ==
    \/ \E t \in Threads, l \in LayerNames : PlainPushLayer(t, l)
    \/ \E t \in Threads : PlainPopTest(t)
    \/ \E t \in Threads : PlainPop(t)
    \/ \E t \in Threads, l \in LayerNames : PlainSetLayer(t, l)
    \/ \E t \in Threads, p \in ProfileIds : PlainSetProfile(t, p)
    \/ \E t \in Threads : PlainSetProfileStack(t)
    \/ \E t \in Threads : PlainRepaint(t)
    \/ \E t \in Threads : PlainNotify(t)

SpecLayerPlain == InitLayer /\ [][NextLayerPlain]_vars

(***************************************************************************)
(* SpecConn: connect(), disconnect() and the auto-reconnect worker.        *)
(* connection_lock is a threading.Lock: an acquire by the thread that      *)
(* holds it waits like any other. An opener call runs in a worker thread   *)
(* of _open_with_timeout; when the wait for its result times out the       *)
(* worker is left running.                                                 *)
(***************************************************************************)
\* connect(retries=3), and the worker's connect(..., retries=1)
DefaultRetries == 3
AutoRetries == 1

\* what an opener call does when it returns
OpenResults == {"port", "OSError"}

restVars == <<now, profVars, callVars, idleFlagVars, pressVars, monVars, apiVars>>

\* a request thread calls connect()
ConnectCall(c) ==
    /\ c \in Threads
    /\ conn[c].pc = "idle"
    /\ nConnects < MaxConnects
    /\ nConnects' = nConnects + 1
    /\ conn' = [conn EXCEPT ![c] = [ConnRest EXCEPT !.pc = "lock", !.op = "connect",
                                                    !.attempt = 1,
                                                    !.retries = DefaultRetries]]
    /\ UNCHANGED <<restVars, sessVars, surfVars, connection_lock, openCalls, hungOpens,
                   device>>

\* _auto_reconnect_worker: one cycle that passes the tests (enabled, not
\* both ports open, the trylock succeeds and the lock is released again) and
\* calls connect(retries=1)
AutoCycle ==
    /\ conn[AutoThread].pc = "idle"
    /\ nConnects < MaxConnects
    /\ ~(input_port /\ output_port)
    /\ connection_lock = 0
    /\ nConnects' = nConnects + 1
    /\ conn' = [conn EXCEPT ![AutoThread] =
                  [ConnRest EXCEPT !.pc = "lock", !.op = "connect", !.attempt = 1,
                                   !.retries = AutoRetries]]
    /\ UNCHANGED <<restVars, sessVars, surfVars, connection_lock, openCalls, hungOpens,
                   device>>

\* connect: with self.connection_lock
ConnectLock(c) ==
    /\ conn[c].pc = "lock"
    /\ connection_lock = 0
    /\ connection_lock' = c
    /\ conn' = [conn EXCEPT ![c].pc = "attempt"]
    /\ UNCHANGED <<restVars, sessVars, surfVars, openCalls, hungOpens, nConnects, device>>

\* connect: the head of one attempt (or the return after the last one)
ConnectAttempt(c) ==
    /\ conn[c].pc = "attempt"
    /\ IF conn[c].attempt > conn[c].retries
       THEN /\ connection_lock' = 0
            /\ conn' = [conn EXCEPT ![c].pc = "idle", ![c].result = "failure"]
       ELSE /\ UNCHANGED connection_lock
            /\ conn' = [conn EXCEPT ![c].pc =
                           IF input_port \/ output_port THEN "disc_lock"
                           ELSE IF "in" \in device THEN "open_in"
                           ELSE IF "out" \in device THEN "open_out"
                           ELSE "fail",
                                    ![c].inner = input_port \/ output_port]
    /\ UNCHANGED <<restVars, sessVars, surfVars, openCalls, hungOpens, nConnects, device>>

\* _open_with_timeout: the worker thread starts and calls the opener
OpenStart(c) ==
    /\ conn[c].pc \in {"open_in", "open_out"}
    /\ openCalls' = openCalls + 1
    /\ conn' = [conn EXCEPT ![c].pc = IF conn[c].pc = "open_in" THEN "wait_in"
                                                                ELSE "wait_out"]
    /\ UNCHANGED <<restVars, sessVars, surfVars, connection_lock, hungOpens, nConnects,
                   device>>

\* _open_with_timeout: the opener returns within the timeout
OpenReturn(c, res) ==
    /\ conn[c].pc \in {"wait_in", "wait_out"}
    /\ openCalls' = openCalls - 1
    /\ IF res = "port"
       THEN /\ input_port' = (input_port \/ conn[c].pc = "wait_in")
            /\ output_port' = (output_port \/ conn[c].pc = "wait_out")
            /\ conn' = [conn EXCEPT ![c].pc =
                           IF conn[c].pc = "wait_in" /\ "out" \in device
                           THEN "open_out" ELSE "finish"]
       ELSE /\ UNCHANGED <<input_port, output_port>>
            /\ conn' = [conn EXCEPT ![c].pc = "fail"]
    /\ UNCHANGED <<restVars, running, surfVars, connection_lock, hungOpens, nConnects,
                   device>>

\* _open_with_timeout: queue.Empty after the timeout; TimeoutError is raised
\* and the worker stays in the opener
OpenTimeout(c) ==
    /\ conn[c].pc \in {"wait_in", "wait_out"}
    /\ hungOpens < MaxHangs
    /\ hungOpens' = hungOpens + 1
    /\ conn' = [conn EXCEPT ![c].pc = "fail"]
    /\ UNCHANGED <<restVars, sessVars, surfVars, connection_lock, openCalls, nConnects,
                   device>>

\* connect: the except branches close what was opened; next attempt
ConnectFail(c) ==
    /\ conn[c].pc = "fail"
    /\ input_port' = FALSE
    /\ output_port' = FALSE
    /\ conn' = [conn EXCEPT ![c].pc = "attempt", ![c].attempt = @ + 1,
                            ![c].errors = @ + 1]
    /\ UNCHANGED <<restVars, running, surfVars, connection_lock, openCalls, hungOpens,
                   nConnects, device>>

\* the flags of a success result that reports both sides as connected
BothConnected(input, output) ==
    [input_connected |-> TRUE, output_connected |-> TRUE]

\* connect: "input_connected": self.input_port is not None,
\* "output_connected": self.output_port is not None
ConnectedFlags(input, output) ==
    [input_connected |-> input, output_connected |-> output]

\* connect: after the opens. With a handle present: repaint if there is an
\* output and return success with the flags; with none: the error "No MIDI
\* ports available" and the next attempt
ConnectFinish(c) ==
    /\ conn[c].pc = "finish"
    /\ IF input_port \/ output_port
       THEN /\ \E joined \in JoinOutcomes :
                 SetSurface(IF output_port
                            THEN update_pad_colors(Surface, output_port, heap[profile],
                                                   current_layer, joined)
                            ELSE Surface)
            /\ connection_lock' = 0
            /\ conn' = [conn EXCEPT ![c].pc = "idle", ![c].result = "success",
                                    ![c].reported = ConnectedFlags(input_port,
                                                                   output_port)]
       ELSE /\ UNCHANGED <<surfVars, connection_lock>>
            /\ conn' = [conn EXCEPT ![c].pc = "attempt", ![c].attempt = @ + 1,
                                    ![c].errors = @ + 1]
    /\ UNCHANGED <<restVars, sessVars, openCalls, hungOpens, nConnects, device>>

\* a request thread calls disconnect()
DisconnectCall(c) ==
    /\ c \in Threads
    /\ conn[c].pc = "idle"
    /\ nConnects < MaxConnects
    /\ nConnects' = nConnects + 1
    /\ conn' = [conn EXCEPT ![c] = [ConnRest EXCEPT !.pc = "disc_lock",
                                                    !.op = "disconnect"]]
    /\ UNCHANGED <<restVars, sessVars, surfVars, connection_lock, openCalls, hungOpens,
                   device>>

\* disconnect: with self.connection_lock
DisconnectLock(c) ==
    /\ conn[c].pc = "disc_lock"
    /\ connection_lock = 0
    /\ connection_lock' = c
    /\ conn' = [conn EXCEPT ![c].pc = "disc_body"]
    /\ UNCHANGED <<restVars, sessVars, surfVars, openCalls, hungOpens, nConnects, device>>

\* disconnect: stop(), clear the pads, close both ports, release the lock
DisconnectBody(c) ==
    /\ conn[c].pc = "disc_body"
    /\ running' = FALSE
    /\ led' = clear_all_pads(led, output_port)
    /\ input_port' = FALSE
    /\ output_port' = FALSE
    /\ connection_lock' = 0
    /\ conn' = [conn EXCEPT ![c].pc = IF conn[c].inner THEN "attempt" ELSE "idle",
                            ![c].inner = FALSE]
    /\ \E joined \in MonitorJoinOutcomes :
         SetMonitoring(stop_idle_timeout_tracking(Monitoring, joined))
    /\ UNCHANGED <<now, profVars, callVars, idleFlagVars, pressVars, apiVars, monStarts,
                   idle_thread, idle_stop_event, idleWorkers, active_animations,
                   pulses, openCalls, hungOpens, nConnects, device>>

\* the engine constructed and not connected
InitConn ==
    /\ Constructed({LayerHeap})
    /\ calls = [t \in Threads |-> NoCall]
    /\ device \in Devices
    /\ running = FALSE
    /\ input_port = FALSE
    /\ output_port = FALSE
    /\ led = [n \in Notes |-> "off"]
    /\ monitors = EmptyDict
    /\ idle_timeout_thread = 0

NextConn ==
    \/ \E c \in ConnThreads : ConnectCall(c)
    \/ AutoCycle
    \/ \E c \in ConnThreads : ConnectLock(c)
    \/ \E c \in ConnThreads : ConnectAttempt(c)
    \/ \E c \in ConnThreads : OpenStart(c)
    \/ \E c \in ConnThreads, res \in OpenResults : OpenReturn(c, res)
    \/ \E c \in ConnThreads : OpenTimeout(c)
    \/ \E c \in ConnThreads : ConnectFail(c)
    \/ \E c \in ConnThreads : ConnectFinish(c)
    \/ \E c \in ConnThreads : DisconnectCall(c)
    \/ \E c \in ConnThreads : DisconnectLock(c)
    \/ \E c \in ConnThreads : DisconnectBody(c)

SpecConn == InitConn /\ [][NextConn]_vars

(***************************************************************************)
(* SpecIdle: the idle-timeout monitors, reset_activity, stop/disconnect,   *)
(* connect and start. One tick of the clock is a minute.                   *)
(***************************************************************************)
\* self.idle_timeout = 120 seconds
IdleTimeout == 2

\* _idle_timeout_worker: the loop test, then into sleep(5)
MonitorLoop(m) ==
    /\ m \in DOMAIN monitors
    /\ monitors[m].pc = "loop"
    /\ monitors' = IF idle_timeout_stop THEN DictDel(monitors, m)
                   ELSE [monitors EXCEPT ![m].pc = "sleeping"]
    /\ UNCHANGED <<now, profVars, callVars, idleFlagVars, pressVars, connVars, apiVars, sessVars,
                   surfVars, idle_timeout_stop, idle_timeout_thread, monStarts>>

\* _idle_timeout_worker: after the sleep, the tests of one check
MonitorCheck(m) ==
    /\ m \in DOMAIN monitors
    /\ monitors[m].pc = "sleeping"
    /\ monitors' = [monitors EXCEPT ![m].pc =
                      IF ~running \/ ~output_port THEN "loop"
                      ELSE IF now - last_activity_time >= IdleTimeout
                              /\ ~idle_animation_triggered
                      THEN "start" ELSE "loop"]
    /\ UNCHANGED <<now, profVars, callVars, idleFlagVars, pressVars, connVars, apiVars, sessVars,
                   surfVars, idle_timeout_stop, idle_timeout_thread, monStarts>>

\* _start_idle_animation: if self.idle_thread and self.idle_thread.is_alive()
MonitorStartTest(m) ==
    /\ m \in DOMAIN monitors
    /\ monitors[m].pc = "start"
    /\ monitors' = [monitors EXCEPT ![m].pc =
                      IF idle_thread # 0 /\ idle_thread \in DOMAIN idleWorkers
                      THEN "flag" ELSE "spawn"]
    /\ UNCHANGED <<now, profVars, callVars, idleFlagVars, pressVars, connVars, apiVars, sessVars,
                   surfVars, idle_timeout_stop, idle_timeout_thread, monStarts>>

\* _start_idle_animation: clear the stop event, create and start the worker
MonitorSpawn(m) ==
    /\ m \in DOMAIN monitors
    /\ monitors[m].pc = "spawn"
    /\ Cardinality(DOMAIN idleWorkers) < MaxIdleWorkers
    /\ LET t == FreeIdleId(Surface)
       IN /\ idle_stop_event' = FALSE
          /\ idle_thread' = t
          /\ idleWorkers' = DictSet(idleWorkers, t, [pc |-> "loop", painted |-> FALSE])
    /\ monStarts' = monStarts + 1
    /\ monitors' = [monitors EXCEPT ![m].pc = "flag"]
    /\ UNCHANGED <<now, profVars, callVars, idleFlagVars, pressVars, connVars, apiVars, sessVars,
                   led, active_animations, pulses, idle_timeout_stop, idle_timeout_thread>>

\* _idle_timeout_worker: self.idle_animation_triggered = True
MonitorFlag(m) ==
    /\ m \in DOMAIN monitors
    /\ monitors[m].pc = "flag"
    /\ idle_animation_triggered' = TRUE
    /\ monitors' = [monitors EXCEPT ![m].pc = "loop"]
    /\ UNCHANGED <<now, profVars, callVars, last_activity_time, pressVars, connVars, apiVars,
                   sessVars, surfVars, idle_timeout_stop, idle_timeout_thread, monStarts>>

MonitorIds == 1..(MaxDisconnects + 1)

\* the thread that runs the transport callback (it calls reset_activity on
\* every press)
Callback == {1}

InitIdle == InitOn({LayerHeap})

NextIdle ==
    \/ \E m \in MonitorIds : MonitorLoop(m)
    \/ \E m \in MonitorIds : MonitorCheck(m)
    \/ \E m \in MonitorIds : MonitorStartTest(m)
    \/ \E m \in MonitorIds : MonitorSpawn(m)
    \/ \E m \in MonitorIds : MonitorFlag(m)
    \/ \E w \in 1..(MaxIdleWorkers + 1) : IdleWorkerStep(w)
    \/ \E t \in Callback : ResetActivity(t)
    \/ \E t \in Callback : ResetFlag(t)
    \/ \E t \in Callback : UpcStop(t)
    \/ \E t \in Callback : UpcRead(t)
    \/ \E t \in Callback : UpcPaint(t)
    \/ \E t \in Callback : ResetReturn(t)
    \/ Tick
    \/ PressDisconnect
    \/ PressConnect
    \/ PressStart

SpecIdle == InitIdle /\ [][NextIdle]_vars

(***************************************************************************)
(* SpecImport: the server's import_profile handler, run by the request     *)
(* threads next to the profile queries and push_layer. The handler is      *)
(* `data = request.json or {}` and the validation (one step, on the        *)
(* thread's own data), Profile.from_dict, the assignment to the registry   *)
(* under the server's profile_lock, mapper.set_profile (the steps of       *)
(* SpecLayer) and the response.                                            *)
(***************************************************************************)
JMapping(note, key_combo, color) ==
    JDict([note |-> JInt(note), key_combo |-> JStr(key_combo), color |-> JStr(color)])

\* {f'Layer{i}': {} for i in range(n)}
ManyLayers(name, n) ==
    JDict([name |-> JStr(name),
           layers |-> JDict([l \in {"Layer" \o ToString(i) : i \in 0..(n - 1)} |->
                                JDict(EmptyDict)])])

\* the bodies the clients post
Payloads ==
    << JDict([name |-> JStr("Imported"),
             layers |-> JDict([Base |-> JDict([k \in {"11"} |-> JMapping(11, "a", "green")]),
                               FX |-> JDict([k \in {"012"} |->
                                                JMapping(12, "b", "#FF0000")])])]),
      JDict([name |-> JStr("Default"),
             mappings |-> JDict([k \in {"12"} |-> JMapping(12, "z", "red")])]),
      ManyLayers("Edge", MAX_LAYERS),
      ManyLayers("Big", MAX_LAYERS + 1),
      JDict([name |-> JStr("")]),
      JDict([name |-> JStr("N"),
             layers |-> JDict([Base |-> JDict([k \in {"200"} |->
                                                  JMapping(200, "a", "green")])])]),
      JDict([layers |-> JDict([Base |-> JDict([k \in {"x"} |->
                                                  JMapping(11, "a", "green")])])]),
      JDict([mappings |-> JDict([k \in {"11"} |-> JMapping(11, "a;b", "#GG0000")])]),
      JDict([name |-> JStr("L"), layers |-> JStr("Base")]),
      JDict(EmptyDict),
      JList(<<JInt(1)>>) >>

\* the requests, with len(request.data): each payload in a body within
\* MAX_PROFILE_SIZE_BYTES, the first also in a body made longer than it by
\* its whitespace
Requests ==
    [i \in DOMAIN Payloads |-> [json |-> Payloads[i], size |-> 1024]]
    \o <<[json |-> Payloads[1], size |-> MAX_PROFILE_SIZE_BYTES + 1]>>

\* the request thread the imports arrive on
Importers == {1}

\* a request thread receives POST /api/profile/import
ImportRequest(t, data, raw_size) ==
    /\ Begin(t)
    /\ threads' = [threads EXCEPT ![t] = [AtRest EXCEPT !.pc = "im_validate",
                                                        !.op = "import_profile"]]
    /\ request' = [request EXCEPT ![t] = [NoRequest EXCEPT !.json = data,
                                                           !.size = raw_size]]
    /\ UNCHANGED <<connVars, calls, autoVars, animVars, tailVars, monVars, now, profVars, profile_lock, sessVars, surfVars,
                   idleFlagVars, pressVars, profiles, response>>

\* import_profile: the 400 response to a ValidationError, or the validated
\* data and the warnings kept for what follows
ImportValidated(t, result) ==
    IF ~result.ok
    THEN /\ response' = [response EXCEPT ![t] =
                            [NoResponse EXCEPT !.status = 400,
                                 !.error = "Validation error: " \o result.message,
                                 !.field = result.field]]
         /\ threads' = [threads EXCEPT ![t].pc = "idle"]
         /\ UNCHANGED request
    ELSE /\ request' = [request EXCEPT ![t].validated = result.val.validated,
                                       ![t].warnings = result.val.warnings]
         /\ threads' = [threads EXCEPT ![t].pc = "im_create"]
         /\ UNCHANGED response

\* import_profile: `if not data` with its 400 response, and
\* validate_profile_import
ImportValidate(t) ==
    /\ threads[t].pc = "im_validate"
    /\ IF Falsy(request[t].json)
       THEN /\ response' = [response EXCEPT ![t] =
                               [NoResponse EXCEPT !.status = 400,
                                                  !.error = "No profile data provided"]]
            /\ threads' = [threads EXCEPT ![t].pc = "idle"]
            /\ UNCHANGED request
       ELSE ImportValidated(t, validate_profile_import(request[t].json, request[t].size))
    /\ UNCHANGED <<connVars, calls, autoVars, animVars, tailVars, monVars, now, profVars, profile_lock, nOps, sessVars, surfVars,
                   idleFlagVars, pressVars, profiles>>

\* import_profile: profile = Profile.from_dict(validated_data)
ImportCreate(t) ==
    /\ threads[t].pc = "im_create"
    /\ heap' = Append(heap, Profile_from_dict(request[t].validated))
    /\ request' = [request EXCEPT ![t].created = Len(heap) + 1]
    /\ threads' = [threads EXCEPT ![t].pc = "im_register"]
    /\ UNCHANGED <<connVars, calls, autoVars, animVars, tailVars, monVars, now, profile, layer_stack, notified, profile_lock, nOps,
                   sessVars, surfVars, idleFlagVars, pressVars, profiles, response>>

\* import_profile: with profile_lock: profiles[profile.name] = profile
\* (the server's lock, held for this statement only)
ImportRegister(t) ==
    /\ threads[t].pc = "im_register"
    /\ profiles' = DictSet(profiles, heap[request[t].created].name, request[t].created)
    /\ threads' = [threads EXCEPT ![t].pc = "im_set"]
    /\ UNCHANGED <<connVars, calls, autoVars, animVars, tailVars, monVars, now, profVars, profile_lock, nOps, sessVars, surfVars,
                   idleFlagVars, pressVars, request, response>>

\* import_profile: mapper.set_profile(profile), its lock and first statement
ImportSetProfile(t) ==
    /\ threads[t].pc = "im_set"
    /\ profile_lock = 0
    /\ profile_lock' = t
    /\ profile' = request[t].created
    /\ threads' = [threads EXCEPT ![t].pc = "sp_stack"]
    /\ UNCHANGED <<connVars, apiVars, monVars, now, heap, layer_stack, notified, nOps,
                   sessVars, surfVars, idleFlagVars, pressVars>>

\* import_profile: the 200 response with mapper.profile.to_dict()
ImportRespond(t) ==
    /\ threads[t].pc = "im_respond"
    /\ response' = [response EXCEPT ![t] =
                       [NoResponse EXCEPT !.status = 200, !.success = TRUE,
                                          !.profile = heap[profile].name,
                                          !.warnings = request[t].warnings]]
    /\ request' = [request EXCEPT ![t] = NoRequest]
    /\ threads' = [threads EXCEPT ![t].pc = "idle"]
    /\ UNCHANGED <<connVars, calls, autoVars, animVars, tailVars, monVars, now, profVars, profile_lock, nOps, sessVars, surfVars,
                   idleFlagVars, pressVars, profiles>>

\* get_profile: GET /api/profile
GetProfile(t) ==
    /\ Begin(t)
    /\ current_layer # None
    /\ threads' = [threads EXCEPT ![t] = [AtRest EXCEPT !.op = "get_profile"]]
    /\ response' = [response EXCEPT ![t] =
                       [NoResponse EXCEPT !.status = 200, !.success = TRUE,
                                          !.profile = heap[profile].name]]
    /\ request' = [request EXCEPT ![t] = NoRequest]
    /\ UNCHANGED <<connVars, calls, autoVars, animVars, tailVars, monVars, now, profVars, profile_lock, sessVars, surfVars,
                   idleFlagVars, pressVars, profiles>>

\* list_profiles: GET /api/profiles
ListProfiles(t) ==
    /\ Begin(t)
    /\ threads' = [threads EXCEPT ![t] = [AtRest EXCEPT !.op = "list_profiles"]]
    /\ response' = [response EXCEPT ![t] =
                       [NoResponse EXCEPT !.status = 200, !.success = TRUE,
                                          !.profile = heap[profile].name,
                                          !.names = DOMAIN profiles]]
    /\ request' = [request EXCEPT ![t] = NoRequest]
    /\ UNCHANGED <<connVars, calls, autoVars, animVars, tailVars, monVars, now, profVars, profile_lock, sessVars, surfVars,
                   idleFlagVars, pressVars, profiles>>

InitImport == InitOn({LayerHeap})

NextImport ==
    \/ \E t \in Importers, i \in DOMAIN Requests :
           ImportRequest(t, Requests[i].json, Requests[i].size)
    \/ \E t \in Threads : ImportValidate(t)
    \/ \E t \in Threads : ImportCreate(t)
    \/ \E t \in Threads : ImportRegister(t)
    \/ \E t \in Threads : ImportSetProfile(t)
    \/ \E t \in Threads : SetProfileStack(t)
    \/ \E t \in Threads : UpcStop(t)
    \/ \E t \in Threads : UpcRead(t)
    \/ \E t \in Threads : UpcPaint(t)
    \/ \E t \in Threads : Notify(t)
    \/ \E t \in Threads : ImportRespond(t)
    \/ \E t \in Threads : GetProfile(t)
    \/ \E t \in Threads : ListProfiles(t)
    \/ \E t \in Threads, l \in LayerNames : PushLayer(t, l)
    \/ \E w \in 1..(MaxIdleWorkers + 1) : IdleWorkerStep(w)

SpecImport == InitImport /\ [][NextImport]_vars

(***************************************************************************)
(* SpecStop: SpecRepeat with request threads that call stop_key_repeat and *)
(* stop_all_repeats directly                                               *)
(***************************************************************************)
\* a request thread is about to call stop_key_repeat(note) or
\* stop_all_repeats()
StopCall(t, op, note) ==
    /\ Begin(t)
    /\ threads' = [threads EXCEPT ![t] = [AtRest EXCEPT !.pc = "stop", !.op = op,
                                                        !.mp = note]]
    /\ UNCHANGED <<connVars, apiVars, monVars, now, profVars, profile_lock, sessVars,
                   surfVars, idleFlagVars, pressVars>>

\* stop_key_repeat(note)
StopKeyRepeat(t) ==
    /\ threads[t].pc = "stop"
    /\ threads[t].op = "stop_key_repeat"
    /\ threads' = [threads EXCEPT ![t].pc = "idle"]
    /\ SetRepeatState(StopRepeat(RepeatState, threads[t].mp))
    /\ UNCHANGED <<connVars, apiVars, monVars, now, profVars, profile_lock, nOps,
                   sessVars, surfVars, idleFlagVars, press_times, long_press_triggered,
                   repeatTasks, timers, macros, cb, nPresses, lastPress, released, inj,
                   repeatThreads, disconnects, staleActs>>

\* stop_all_repeats()
StopAllRepeats(t) ==
    /\ threads[t].pc = "stop"
    /\ threads[t].op = "stop_all_repeats"
    /\ threads' = [threads EXCEPT ![t].pc = "idle"]
    /\ SetRepeatState(stop_all_repeats(RepeatState))
    /\ UNCHANGED <<connVars, apiVars, monVars, now, profVars, profile_lock, nOps,
                   sessVars, surfVars, idleFlagVars, press_times, long_press_triggered,
                   repeatTasks, timers, macros, cb, nPresses, lastPress, released, inj,
                   repeatThreads, disconnects, staleActs>>

\* the request thread that makes these calls
Stoppers == {1}

NextStop ==
    \/ \E n \in Notes, v \in Velocities : HandlePress(n, v)
    \/ \E n \in Notes : HandleRelease(n)
    \/ ReleaseCleanup
    \/ \E t \in 1..MaxPresses : RepeatAdvance(t)
    \/ \E t \in 1..MaxPresses : RepeatInject(t)
    \/ \E t \in Stoppers, n \in Notes : StopCall(t, "stop_key_repeat", n)
    \/ \E t \in Stoppers : StopCall(t, "stop_all_repeats", 0)
    \/ \E t \in Stoppers : StopKeyRepeat(t)
    \/ \E t \in Stoppers : StopAllRepeats(t)

SpecStop == InitRepeat /\ [][NextStop]_vars

(***************************************************************************)
(* SpecStart: SpecConn with request threads that also call start().        *)
(* start() takes no lock.                                                  *)
(***************************************************************************)
\* start(): `if self.running: return True`, `if not self.input_port: return
\* False`; otherwise the call goes on to `self.running = True`
StartTest(c) ==
    /\ c \in Threads
    /\ conn[c].pc = "idle"
    /\ nConnects < MaxConnects
    /\ nConnects' = nConnects + 1
    /\ conn' = [conn EXCEPT ![c] =
                  [ConnRest EXCEPT !.op = "start",
                                   !.pc = IF ~running /\ input_port THEN "start_run"
                                                                    ELSE "idle",
                                   !.result = IF running THEN "True"
                                              ELSE IF ~input_port THEN "False"
                                              ELSE None]]
    /\ UNCHANGED <<restVars, sessVars, surfVars, connection_lock, openCalls, hungOpens,
                   device>>

\* start(): self.running = True, the activity timer, the idle tracking, the
\* repaint, return True
StartRun(c) ==
    /\ conn[c].pc = "start_run"
    /\ running' = TRUE
    /\ last_activity_time' = now
    /\ SetMonitoring(start_idle_timeout_tracking(Monitoring))
    /\ monStarts' = 0
    /\ \E joined \in JoinOutcomes :
         SetSurface(update_pad_colors(Surface, output_port, heap[profile],
                                      current_layer, joined))
    /\ conn' = [conn EXCEPT ![c].pc = "idle", ![c].result = "True"]
    /\ UNCHANGED <<callVars, apiVars, now, profVars, input_port, output_port,
                   idle_animation_triggered, pressVars, connection_lock, openCalls,
                   hungOpens, nConnects, device>>

NextStart ==
    \/ NextConn
    \/ \E c \in Threads : StartTest(c)
    \/ \E c \in Threads : StartRun(c)

SpecStart == InitConn /\ [][NextStart]_vars

(***************************************************************************)
(* SpecConnPlain: connect() and disconnect() of src/launchpad_mapper.py,   *)
(* which has no connection lock and opens the ports with mido directly.    *)
(* connect() succeeds there only with an input port.                       *)
(***************************************************************************)
\* what find_launchpad_ports can detect: both ports, one of them, none
PlainDevices == {BothPorts, {"in"}, {"out"}, {}}

\* the retries argument of connect()
RetryCounts == 1..DefaultRetries

PlainCallers == {1}

\* connect(retries=n) is called: errors = []
PlainConnectCall(c, n) ==
    /\ conn[c].pc = "idle"
    /\ nConnects < MaxConnects
    /\ nConnects' = nConnects + 1
    /\ conn' = [conn EXCEPT ![c] = [ConnRest EXCEPT !.pc = "attempt", !.op = "connect",
                                                    !.attempt = 1, !.retries = n]]
    /\ UNCHANGED <<restVars, sessVars, surfVars, connection_lock, openCalls, hungOpens,
                   device>>

\* connect: the head of one attempt: self.disconnect() if a handle is
\* present, then the detection; or, after the last attempt, the return of
\* success=False
PlainConnectAttempt(c) ==
    /\ conn[c].pc = "attempt"
    /\ IF conn[c].attempt > conn[c].retries
       THEN /\ conn' = [conn EXCEPT ![c].pc = "idle", ![c].result = "failure"]
            /\ UNCHANGED <<sessVars, led>>
       ELSE /\ IF input_port \/ output_port
               THEN /\ running' = FALSE
                    /\ led' = clear_all_pads(led, output_port)
                    /\ input_port' = FALSE
                    /\ output_port' = FALSE
               ELSE UNCHANGED <<sessVars, led>>
            /\ conn' = IF device = {}
                       THEN [conn EXCEPT ![c].attempt = @ + 1, ![c].errors = @ + 1]
                       ELSE [conn EXCEPT ![c].pc = "open"]
    /\ UNCHANGED <<restVars, idle_thread, idle_stop_event, idleWorkers,
                   active_animations, pulses, connection_lock, openCalls, hungOpens,
                   nConnects, device>>

\* connect: mido.open_input and mido.open_output on what was detected. An
\* exception closes what was opened and counts one error; without an input
\* handle the attempt counts the error "Input port is required" and goes on
\* to the next one; with one it returns success=True
PlainOpen(c, resIn, resOut) ==
    /\ conn[c].pc = "open"
    /\ LET raised == \/ "in" \in device /\ resIn = "OSError"
                     \/ "out" \in device /\ resOut = "OSError"
       IN IF raised
          THEN /\ input_port' = FALSE
               /\ output_port' = FALSE
               /\ conn' = [conn EXCEPT ![c].pc = "attempt", ![c].attempt = @ + 1,
                                       ![c].errors = @ + 1]
          ELSE /\ input_port' = ("in" \in device)
               /\ output_port' = ("out" \in device)
               /\ conn' = IF "in" \in device
                          THEN [conn EXCEPT ![c].pc = "idle", ![c].result = "success"]
                          ELSE [conn EXCEPT ![c].pc = "attempt", ![c].attempt = @ + 1,
                                            ![c].errors = @ + 1]
    /\ UNCHANGED <<restVars, running, surfVars, connection_lock, openCalls, hungOpens,
                   nConnects, device>>

\* disconnect(): stop(), close both ports
PlainDisconnect(c) ==
    /\ conn[c].pc = "idle"
    /\ nConnects < MaxConnects
    /\ nConnects' = nConnects + 1
    /\ conn' = [conn EXCEPT ![c] = [ConnRest EXCEPT !.op = "disconnect"]]
    /\ running' = FALSE
    /\ led' = clear_all_pads(led, output_port)
    /\ input_port' = FALSE
    /\ output_port' = FALSE
    /\ UNCHANGED <<restVars, idle_thread, idle_stop_event, idleWorkers,
                   active_animations, pulses, connection_lock, openCalls, hungOpens,
                   device>>

InitConnPlain ==
    /\ Constructed({LayerHeap})
    /\ calls = [t \in Threads |-> NoCall]
    /\ device \in PlainDevices
    /\ running = FALSE
    /\ input_port = FALSE
    /\ output_port = FALSE
    /\ led = [n \in Notes |-> "off"]
    /\ monitors = EmptyDict
    /\ idle_timeout_thread = 0

NextConnPlain ==
    \/ \E c \in PlainCallers, n \in RetryCounts : PlainConnectCall(c, n)
    \/ \E c \in PlainCallers : PlainConnectAttempt(c)
    \/ \E c \in PlainCallers, resIn \in OpenResults, resOut \in OpenResults :
          PlainOpen(c, resIn, resOut)
    \/ \E c \in PlainCallers : PlainDisconnect(c)

SpecConnPlain == InitConnPlain /\ [][NextConnPlain]_vars

(***************************************************************************)
(* SpecAuto: set_auto_reconnect and the loop of _auto_reconnect_worker. No *)
(* other thread connects, so the worker's trylock succeeds and its         *)
(* connect(retries=1) is one step that opens the ports of the device or    *)
(* fails.                                                                  *)
(***************************************************************************)
MaxSwitches == 4

\* threading.Thread.is_alive() of self.auto_reconnect_thread
AutoAlive == auto_reconnect_thread \notin {"None", "dead"}

\* set_auto_reconnect(enabled, interval)
SetAutoReconnect(enabled) ==
    /\ nSwitches < MaxSwitches
    /\ nSwitches' = nSwitches + 1
    /\ auto_reconnect_enabled' = enabled
    /\ IF enabled /\ ~AutoAlive
       THEN /\ auto_reconnect_stop' = FALSE
            /\ auto_reconnect_thread' = "test"
       ELSE /\ auto_reconnect_stop' = (auto_reconnect_stop \/ ~enabled)
            /\ UNCHANGED auto_reconnect_thread
    /\ UNCHANGED <<connVars, importVars, calls, animVars, tailVars, monVars, now, profVars, callVars,
                   sessVars, surfVars, idleFlagVars, pressVars>>

\* _auto_reconnect_worker: while not self.auto_reconnect_stop.is_set()
AutoLoopTest ==
    /\ auto_reconnect_thread = "test"
    /\ auto_reconnect_thread' = IF auto_reconnect_stop THEN "dead" ELSE "sleeping"
    /\ UNCHANGED <<connVars, importVars, calls, animVars, tailVars, monVars, now, profVars, callVars,
                   sessVars, surfVars, idleFlagVars, pressVars, auto_reconnect_enabled,
                   auto_reconnect_stop, nSwitches>>

\* _auto_reconnect_worker: time.sleep returns; the two `continue` tests and
\* the trylock
AutoWake ==
    /\ auto_reconnect_thread = "sleeping"
    /\ auto_reconnect_thread' =
          IF ~auto_reconnect_enabled \/ (input_port /\ output_port) \/ connection_lock # 0
          THEN "test" ELSE "connect"
    /\ UNCHANGED <<connVars, importVars, calls, animVars, tailVars, monVars, now, profVars, callVars,
                   sessVars, surfVars, idleFlagVars, pressVars, auto_reconnect_enabled,
                   auto_reconnect_stop, nSwitches>>

\* _auto_reconnect_worker: self.connect(..., retries=1). With no handle
\* present the ports the device has are opened and the pads repainted, or
\* the one attempt fails; with one handle present connect() calls
\* self.disconnect() under connection_lock and waits for the lock it holds
AutoConnect(res) ==
    /\ auto_reconnect_thread = "connect"
    /\ IF input_port \/ output_port
       THEN /\ auto_reconnect_thread' = "blocked"
            /\ connection_lock' = AutoThread
            /\ UNCHANGED <<input_port, output_port, surfVars>>
       ELSE /\ auto_reconnect_thread' = "test"
            /\ UNCHANGED connection_lock
            /\ IF res = "port"
               THEN /\ input_port' = ("in" \in device)
                    /\ output_port' = ("out" \in device)
                    /\ \E joined \in JoinOutcomes :
                         SetSurface(IF "out" \in device
                                    THEN update_pad_colors(Surface, TRUE, heap[profile],
                                                           current_layer, joined)
                                    ELSE Surface)
               ELSE UNCHANGED <<input_port, output_port, surfVars>>
    /\ UNCHANGED <<conn, openCalls, hungOpens, nConnects, device, importVars, calls, animVars, tailVars,
                   monVars, now, profVars, callVars, running, idleFlagVars, pressVars,
                   auto_reconnect_enabled, auto_reconnect_stop, nSwitches>>

NextAuto ==
    \/ \E enabled \in BOOLEAN : SetAutoReconnect(enabled)
    \/ AutoLoopTest
    \/ AutoWake
    \/ \E res \in OpenResults : AutoConnect(res)

SpecAuto == InitConn /\ [][NextAuto]_vars

(***************************************************************************)
(* SpecEmulate: a request thread calls emulate_pad_press (the server's     *)
(* /api/emulate) on a connected, running engine; the macro and pulse       *)
(* threads it starts run next to it. One call is not interrupted.          *)
(***************************************************************************)
\* the velocity emulate_pad_press defaults to
EmulateVelocity == 127

\* emulate_pad_press over a mapping that is disabled like over an enabled one
UnmappedNone(mapping) == mapping = NoMapping

\* emulate_pad_press: `if not mapping or not mapping.enabled`
Unmapped(mapping) == mapping = NoMapping \/ ~mapping.enabled

\* profiles with a plain key and a disabled key; a macro and a disabled layer
\* push; a layer push whose target layer maps only the layer-up control
EmulateProfiles ==
    { add_mapping(add_mapping(NewProfile("Default", "Base"),
                              PadMapping(11, "a", "green"), "Base"),
                  [PadMapping(12, "b", "red") EXCEPT !.enabled = FALSE], "Base"),
      add_mapping(add_mapping(NewProfile("Default", "Base"), MacroKey(11), "Base"),
                  [LayerPush(12, "FX") EXCEPT !.enabled = FALSE], "Base"),
      add_mapping(add_mapping(add_mapping(NewProfile("Default", "Base"),
                                          LayerPush(11, "FX"), "Base"),
                              PadMapping(12, "a", "green"), "Base"),
                  LayerUp(11), "FX") }

Emulators == {1}

\* LaunchpadMapper.emulate_pad_press(note, skip_pulse)
EmulatePadPress(t, note, skip_pulse) ==
    /\ Begin(t)
    /\ nPresses < MaxPresses
    /\ \E joined \in JoinOutcomes :
        LET id == nPresses + 1
            mapping == get_mapping(heap[profile], note, current_layer)
            none == Unmapped(mapping)
            isLayerUp == ~none /\ mapping.action = "layer_up"
            isLayer == ~none /\ ~isLayerUp /\ mapping.action = "layer"
                       /\ mapping.target_layer # None
            isMacro == ~none /\ ~isLayerUp /\ ~isLayer /\ mapping.macro_steps # <<>>
            action == IF none THEN ""
                      ELSE get_velocity_action(mapping, EmulateVelocity)
            isKey == ~none /\ ~isLayerUp /\ ~isLayer /\ ~isMacro /\ action # ""
            L1 == IF isLayerUp THEN pop_layer(LayerState, profile, output_port, joined)
                  ELSE IF isLayer
                       THEN push_layer(LayerState, profile, output_port,
                                       mapping.target_layer, joined)
                       ELSE LayerState
            L2 == IF isKey /\ ~skip_pulse
                  THEN [L1 EXCEPT !.S = pulse(L1.S, id, note, mapping.color)]
                  ELSE L1
            result == IF none
                      THEN [success |-> FALSE, error |-> "No mapping for this pad."]
                      ELSE IF isLayerUp THEN [success |-> TRUE, action |-> "layer_up"]
                      ELSE IF isLayer THEN [success |-> TRUE, action |-> "layer"]
                      ELSE IF isMacro THEN [success |-> TRUE, action |-> "macro"]
                      ELSE IF isKey THEN [success |-> TRUE, action |-> "key"]
                      ELSE [success |-> FALSE, error |-> "No action for this mapping."]
        IN /\ SetLayerState(L2)
           /\ macros' = IF isMacro THEN DictSet(macros, id, mapping.macro_steps)
                        ELSE macros
           /\ inj' = IF isKey \/ isMacro THEN Injected(id, "primary") ELSE inj
           /\ nPresses' = IF isKey \/ isMacro THEN id ELSE nPresses
           /\ calls' = [calls EXCEPT ![t] =
                          [fn |-> "emulate_pad_press", note |-> note,
                           mapping |-> mapping, velocity |-> EmulateVelocity,
                           returned |-> TRUE, result |-> result]]
    /\ UNCHANGED <<connVars, importVars, autoVars, animVars, tailVars, monVars, now, profile, threads,
                   profile_lock, sessVars, idleFlagVars, press_times,
                   long_press_triggered, active_repeats, repeat_stop_events,
                   repeatTasks, eventsSet, timers, cb, lastPress, released, repeatThreads,
                   disconnects, staleActs>>

InitEmulate == InitOn({<<p>> : p \in EmulateProfiles})

NextEmulate ==
    \/ \E t \in Emulators, n \in Notes, skip_pulse \in BOOLEAN :
          EmulatePadPress(t, n, skip_pulse)
    \/ \E p \in 1..MaxPresses : MacroStep(p)
    \/ \E i \in 1..MaxPresses : PulseStep(i)

SpecEmulate == InitEmulate /\ [][NextEmulate]_vars

(***************************************************************************)
(* SpecLayerPress: the dispatch of SpecPress on profiles whose layer pads   *)
(* lead to layers that map the same control to a key.                      *)
(***************************************************************************)
LayerPressProfiles ==
    { add_mapping(add_mapping(add_mapping(add_mapping(NewProfile("Default", "Base"),
          LayerPush(11, "FX"), "Base"), RepeatKey(12), "Base"),
          LongPressKey(11), "FX"), MacroKey(12), "FX"),
      add_mapping(add_mapping(add_mapping(add_mapping(NewProfile("Default", "Base"),
          LayerPush(11, "FX"), "Base"), LongPressKey(12), "Base"),
          RepeatKey(11), "FX"), LayerUp(12), "FX"),
      add_mapping(ensure_layer(NewProfile("Default", "Base"), "FX"),
                  LayerPush(12, "FX"), "Base") }

InitLayerPress == InitOn({<<p>> : p \in LayerPressProfiles})

SpecLayerPress == InitLayerPress /\ [][NextPress]_vars

(***************************************************************************)
(* SpecDispatch: pad presses from the device and from emulate_pad_press    *)
(* while request threads push layers and switch profiles.                  *)
(***************************************************************************)
NextDispatch ==
    \/ \E t \in Threads, l \in LayerNames : PushLayer(t, l)
    \/ \E t \in Threads, p \in ProfileIds : SetProfile(t, p)
    \/ \E t \in Threads : SetProfileStack(t)
    \/ \E t \in Threads : UpcStop(t)
    \/ \E t \in Threads : UpcRead(t)
    \/ \E t \in Threads : UpcPaint(t)
    \/ \E t \in Threads : Notify(t)
    \/ \E t \in Threads, n \in Notes : EmulatePadPress(t, n, TRUE)
    \/ \E n \in Notes, v \in Velocities : HandlePress(n, v)
    \/ \E w \in 1..(MaxIdleWorkers + 1) : IdleWorkerStep(w)

SpecDispatch == InitLayer /\ [][NextDispatch]_vars

(***************************************************************************)
(* SpecSmiley: play_smiley_animation from the request threads, with the    *)
(* idle-timeout monitor running. No disconnect: one monitor only.          *)
(***************************************************************************)
\* play_smiley_animation: the output test, _stop_idle_animation()
PlaySmiley(t) ==
    /\ Begin(t)
    /\ IF ~output_port
       THEN /\ threads' = [threads EXCEPT ![t] = [AtRest EXCEPT !.op = "play_smiley"]]
            /\ UNCHANGED surfVars
       ELSE /\ threads' = [threads EXCEPT ![t] = [AtRest EXCEPT !.pc = "ps_test",
                                                                !.op = "play_smiley"]]
            /\ \E joined \in JoinOutcomes :
                  SetSurface(stop_idle_animation(Surface, output_port, joined))
    /\ UNCHANGED <<connVars, apiVars, monVars, now, profVars, profile_lock, sessVars,
                   idleFlagVars, pressVars>>

\* play_smiley_animation: _start_idle_animation(), its alive test; when a
\* worker is alive the call goes on to start the stop_after_duration thread
\* and returns
PlayStartTest(t) ==
    /\ threads[t].pc = "ps_test"
    /\ threads' = [threads EXCEPT ![t].pc =
                      IF idle_thread # 0 /\ idle_thread \in DOMAIN idleWorkers
                      THEN "sd_sleep" ELSE "ps_spawn"]
    /\ UNCHANGED <<connVars, apiVars, monVars, now, profVars, profile_lock, nOps, sessVars,
                   surfVars, idleFlagVars, pressVars>>

\* play_smiley_animation: _start_idle_animation() clears the stop event and
\* starts the worker; the stop_after_duration thread is started and the call
\* returns (the thread record stands for that thread from here on)
PlaySpawn(t) ==
    /\ threads[t].pc = "ps_spawn"
    /\ Cardinality(DOMAIN idleWorkers) < MaxIdleWorkers
    /\ LET w == FreeIdleId(Surface)
       IN /\ idle_stop_event' = FALSE
          /\ idle_thread' = w
          /\ idleWorkers' = DictSet(idleWorkers, w, [pc |-> "loop", painted |-> FALSE])
    /\ threads' = [threads EXCEPT ![t].pc = "sd_sleep"]
    /\ UNCHANGED <<connVars, apiVars, monVars, now, profVars, profile_lock, nOps, sessVars,
                   led, active_animations, pulses, idleFlagVars, pressVars>>

\* stop_after_duration: after the sleep, _stop_idle_animation() and then
\* update_pad_colors() if the engine is running
SmileyStop(t) ==
    /\ threads[t].pc = "sd_sleep"
    /\ \E joined \in JoinOutcomes :
          SetSurface(stop_idle_animation(Surface, output_port, joined))
    /\ threads' = [threads EXCEPT ![t].pc = IF running THEN "upc_stop" ELSE "idle"]
    /\ UNCHANGED <<connVars, apiVars, monVars, now, profVars, profile_lock, nOps, sessVars,
                   idleFlagVars, pressVars>>

NextSmiley ==
    \/ \E m \in MonitorIds : MonitorLoop(m)
    \/ \E m \in MonitorIds : MonitorCheck(m)
    \/ \E m \in MonitorIds : MonitorStartTest(m)
    \/ \E m \in MonitorIds : MonitorSpawn(m)
    \/ \E m \in MonitorIds : MonitorFlag(m)
    \/ \E w \in 1..(MaxIdleWorkers + 1) : IdleWorkerStep(w)
    \/ \E t \in Threads : PlaySmiley(t)
    \/ \E t \in Threads : PlayStartTest(t)
    \/ \E t \in Threads : PlaySpawn(t)
    \/ \E t \in Threads : SmileyStop(t)
    \/ \E t \in Threads : UpcStop(t)
    \/ \E t \in Threads : UpcRead(t)
    \/ \E t \in Threads : UpcPaint(t)
    \/ Tick

SpecSmiley == InitIdle /\ [][NextSmiley]_vars

(***************************************************************************)
(* SpecMonitor: start() and stop() calls with the idle-timeout monitors.   *)
(***************************************************************************)
\* LaunchpadMapper.stop, called while the monitors are in their sleep(5)
\* (no more than MaxDisconnects monitors are left behind)
Stop(t) ==
    /\ Begin(t)
    /\ Cardinality(DOMAIN monitors) <= MaxDisconnects
    /\ \A m \in DOMAIN monitors : monitors[m].pc = "sleeping"
    /\ running' = FALSE
    /\ SetRepeatState(stop_all_repeats(RepeatState))
    /\ \E joined \in JoinOutcomes :
        LET S1 == stop_idle_animation(stop_all_animations(Surface, joined),
                                      output_port, joined)
        IN SetSurface([S1 EXCEPT !.led = clear_all_pads(S1.led, output_port)])
    /\ \E joined \in MonitorJoinOutcomes :
         SetMonitoring(stop_idle_timeout_tracking(Monitoring, joined))
    /\ threads' = [threads EXCEPT ![t] = [AtRest EXCEPT !.op = "stop"]]
    /\ UNCHANGED <<connVars, apiVars, monStarts, now, profVars, profile_lock, input_port,
                   output_port, idleFlagVars, press_times, long_press_triggered,
                   repeatTasks, timers, macros, cb, nPresses, lastPress, released, inj,
                   repeatThreads, disconnects, staleActs>>

NextMonitor ==
    \/ \E m \in MonitorIds : MonitorLoop(m)
    \/ \E m \in MonitorIds : MonitorCheck(m)
    \/ \E m \in MonitorIds : MonitorStartTest(m)
    \/ \E m \in MonitorIds : MonitorSpawn(m)
    \/ \E m \in MonitorIds : MonitorFlag(m)
    \/ \E w \in 1..(MaxIdleWorkers + 1) : IdleWorkerStep(w)
    \/ \E t \in Threads : Stop(t)
    \/ PressStart
    \/ Tick

SpecMonitor == InitIdle /\ [][NextMonitor]_vars

(***************************************************************************)
(* SpecRoundTrip: a Profile built by add_mapping and ensure_layer calls,   *)
(* then serialised by to_dict and rebuilt by from_dict.                    *)
(***************************************************************************)
\* the mappings the calls add: a plain key, a velocity table, a layer push
RoundTripMappings ==
    {PadMapping(11, "a", "red"),
     [PadMapping(12, "b", "blue") EXCEPT !.repeat_enabled = TRUE,
                                         !.long_press_enabled = TRUE,
                                         !.long_press_action = "c"],
     [PadMapping(11, "v", "green") EXCEPT
          !.velocity_mappings = <<[range |-> "0-63", action |-> "x"],
                                  [range |-> "64-127", action |-> "y"]>>],
     [PadMapping(12, "", "cyan") EXCEPT !.action = "layer", !.target_layer = "FX"]}

\* the thread that builds the profile and converts it
RoundTrippers == {1}

\* profile.add_mapping(mapping, layer)
ProfileAddMapping(t, mapping, layer) ==
    /\ Begin(t)
    /\ heap' = [heap EXCEPT ![profile] = add_mapping(@, mapping, layer)]
    /\ threads' = [threads EXCEPT ![t] = [AtRest EXCEPT !.op = "add_mapping"]]
    /\ UNCHANGED <<connVars, apiVars, monVars, now, profile, layer_stack, notified,
                   profile_lock, sessVars, surfVars, idleFlagVars, pressVars>>

\* profile.ensure_layer(layer)
ProfileEnsureLayer(t, layer) ==
    /\ Begin(t)
    /\ heap' = [heap EXCEPT ![profile] = ensure_layer(@, layer)]
    /\ threads' = [threads EXCEPT ![t] = [AtRest EXCEPT !.op = "ensure_layer"]]
    /\ UNCHANGED <<connVars, apiVars, monVars, now, profile, layer_stack, notified,
                   profile_lock, sessVars, surfVars, idleFlagVars, pressVars>>

\* data = profile.to_dict()
ToDict(t) ==
    /\ Begin(t)
    /\ request' = [request EXCEPT ![t] =
                      [NoRequest EXCEPT !.validated = Profile_to_dict(heap[profile])]]
    /\ threads' = [threads EXCEPT ![t] = [AtRest EXCEPT !.pc = "from_dict",
                                                        !.op = "round_trip"]]
    /\ UNCHANGED <<connVars, calls, autoVars, animVars, tailVars, monVars, now, profVars,
                   profile_lock, sessVars, surfVars, idleFlagVars, pressVars,
                   profiles, response>>

\* restored = Profile.from_dict(data)
FromDict(t) ==
    /\ threads[t].pc = "from_dict"
    /\ heap' = Append(heap, Profile_from_dict(request[t].validated))
    /\ request' = [request EXCEPT ![t].created = Len(heap) + 1]
    /\ threads' = [threads EXCEPT ![t].pc = "idle"]
    /\ UNCHANGED <<connVars, calls, autoVars, animVars, tailVars, monVars, now, profile,
                   layer_stack, notified, profile_lock, nOps, sessVars, surfVars,
                   idleFlagVars, pressVars, profiles, response>>

InitRoundTrip == InitOn({<<NewProfile("RoundTrip", "Main")>>})

NextRoundTrip ==
    \/ \E t \in RoundTrippers, mapping \in RoundTripMappings,
          layer \in {None, "Main", "Alt"} : ProfileAddMapping(t, mapping, layer)
    \/ \E t \in RoundTrippers, layer \in {"Main", "Alt"} : ProfileEnsureLayer(t, layer)
    \/ \E t \in RoundTrippers : ToDict(t)
    \/ \E t \in Threads : FromDict(t)

SpecRoundTrip == InitRoundTrip /\ [][NextRoundTrip]_vars

(***************************************************************************)
(* SpecAnim: one LEDAnimation object (a pulse, a progress bar or a rainbow *)
(* cycle) with request threads calling its start() and stop(), and the     *)
(* threads start() makes running the animation.                            *)
(***************************************************************************)
AnimationKinds == {"pulse", "progress", "rainbow"}

\* RainbowCycleAnimation.colors
RainbowColors == <<"red", "orange", "yellow", "lime", "green", "cyan", "blue", "purple",
                   "magenta">>

\* the pads of an animation in their order, as indices from 0
NoteIndex(n) == Cardinality({m \in Notes : m < n})

\* a start() that takes no account of the thread it has
AnimNeverAlive(a) == FALSE

\* LEDAnimation.start: self.thread and self.thread.is_alive()
AnimAlive(a) == a.thread # 0 /\ a.thread \in DOMAIN a.tasks

\* join(timeout=0.5) in LEDAnimation.stop: a pulse and a progress bar test
\* the stop event every 0.05 s or faster and end within the join; a rainbow
\* cycle sleeps self.speed = 0.5 s between two tests, and may not
AnimJoinOutcomes(kind) == IF kind = "rainbow" THEN {TRUE, FALSE} ELSE {TRUE}

\* PulseAnimation(...), ProgressBarAnimation(...), RainbowCycleAnimation(...)
AnimCreate(t, kind) ==
    /\ Begin(t)
    /\ animation.kind = None
    /\ animation' = [NoAnimationObject EXCEPT !.kind = kind]
    /\ threads' = [threads EXCEPT ![t] = [AtRest EXCEPT !.op = "anim_create"]]
    /\ UNCHANGED <<connVars, importVars, calls, autoVars, tailVars, monVars, now, profVars,
                   profile_lock, sessVars, surfVars, idleFlagVars, pressVars>>

\* LEDAnimation.start: the test of the thread
AnimStart(t) ==
    /\ Begin(t)
    /\ animation.kind # None
    /\ threads' = [threads EXCEPT ![t] =
                     [AtRest EXCEPT !.op = "anim_start",
                                    !.pc = IF AnimAlive(animation) THEN "idle"
                                                                   ELSE "anim_spawn",
                                    !.post = [NoPost EXCEPT
                                                 !.seen = TRUE,
                                                 !.animation =
                                                     /\ animation.thread # 0
                                                     /\ animation.thread
                                                            \in DOMAIN animation.tasks]]]
    /\ UNCHANGED <<connVars, apiVars, monVars, now, profVars, profile_lock, sessVars,
                   surfVars, idleFlagVars, pressVars>>

\* LEDAnimation.start: stop_event.clear(), the new thread, its start
AnimSpawn(t) ==
    /\ threads[t].pc = "anim_spawn"
    /\ animation' = [animation EXCEPT
                        !.stop_event = FALSE,
                        !.thread = animation.spawned + 1,
                        !.spawned = animation.spawned + 1,
                        !.tasks = DictSet(animation.tasks, animation.spawned + 1,
                                          [k |-> 0])]
    /\ threads' = [threads EXCEPT ![t].pc = "idle"]
    /\ UNCHANGED <<connVars, importVars, calls, autoVars, tailVars, monVars, now, profVars,
                   profile_lock, nOps, sessVars, surfVars, idleFlagVars, pressVars>>

\* LEDAnimation.stop: stop_event.set(), join(timeout=0.5)
AnimStop(t, joined) ==
    /\ Begin(t)
    /\ animation.kind # None
    /\ joined \in AnimJoinOutcomes(animation.kind)
    /\ animation' = [animation EXCEPT
                        !.stop_event = TRUE,
                        !.tasks = IF joined /\ AnimAlive(animation)
                                  THEN DictDel(animation.tasks, animation.thread)
                                  ELSE animation.tasks]
    /\ threads' = [threads EXCEPT ![t] = [AtRest EXCEPT !.op = "anim_stop"]]
    /\ UNCHANGED <<connVars, importVars, calls, autoVars, tailVars, monVars, now, profVars,
                   profile_lock, sessVars, surfVars, idleFlagVars, pressVars>>

\* run() of the three animations, one test of the stop event and one paint
\* at a time: PulseAnimation.run paints bright and dim for 5 rounds,
\* ProgressBarAnimation.run paints its row pad by pad (percentage 50),
\* RainbowCycleAnimation.run paints every pad until it is stopped
AnimRun(id) ==
    /\ id \in DOMAIN animation.tasks
    /\ LET k == animation.tasks[id].k
           ended == \/ animation.stop_event
                    \/ animation.kind = "pulse" /\ k = 2 * PulseSteps
                    \/ animation.kind = "progress" /\ k = Cardinality(Notes)
       IN IF ended
          THEN /\ animation' = [animation EXCEPT !.tasks = DictDel(animation.tasks, id)]
               /\ led' = led
          ELSE /\ animation' = [animation EXCEPT
                                  !.tasks[id].k = IF animation.kind = "rainbow"
                                                  THEN (k + 1) % Len(RainbowColors)
                                                  ELSE k + 1]
               /\ led' = IF animation.kind = "pulse"
                         THEN set_pad_color(led, output_port, {11},
                                            IF k % 2 = 0 THEN "red" ELSE DimColor("red"))
                         ELSE IF animation.kind = "progress"
                         THEN set_pad_color(led, output_port,
                                            {n \in Notes : NoteIndex(n) = k},
                                            IF 2 * k < Cardinality(Notes) THEN "green"
                                                                          ELSE "off")
                         ELSE IF output_port
                              THEN [n \in Notes |->
                                      RainbowColors[((NoteIndex(n) + k) % Len(RainbowColors)) + 1]]
                              ELSE led
    /\ UNCHANGED <<connVars, importVars, calls, autoVars, tailVars, monVars, now, profVars,
                   callVars, sessVars, idleFlagVars, idle_thread, idle_stop_event,
                   idleWorkers, active_animations, pulses, pressVars>>

NextAnim ==
    \/ \E t \in Threads, kind \in AnimationKinds : AnimCreate(t, kind)
    \/ \E t \in Threads : AnimStart(t)
    \/ \E t \in Threads : AnimSpawn(t)
    \/ \E t \in Threads, joined \in BOOLEAN : AnimStop(t, joined)
    \/ \E id \in 1..MaxOps : AnimRun(id)

SpecAnim == InitLayer /\ [][NextAnim]_vars

(***************************************************************************)
(* SpecRepaint: reset_activity (and its update_pad_colors) on the request  *)
(* threads while a pulse, a progress bar or a rainbow cycle is running.    *)
(***************************************************************************)
NextRepaint ==
    \/ \E t \in Threads, n \in Notes : EmulatePadPress(t, n, FALSE)
    \/ \E p \in 1..MaxPresses : MacroStep(p)
    \/ \E i \in 1..MaxPresses : PulseStep(i)
    \/ \E t \in Threads, kind \in AnimationKinds : AnimCreate(t, kind)
    \/ \E t \in Threads : AnimStart(t)
    \/ \E t \in Threads : AnimSpawn(t)
    \/ \E id \in 1..MaxOps : AnimRun(id)
    \/ \E t \in Threads : ResetActivity(t)
    \/ \E t \in Threads : ResetFlag(t)
    \/ \E t \in Threads : UpcStop(t)
    \/ \E t \in Threads : UpcRead(t)
    \/ \E t \in Threads : UpcPaint(t)
    \/ \E t \in Threads : ResetReturn(t)

SpecRepaint == InitEmulate /\ [][NextRepaint]_vars

(***************************************************************************)
(* get_velocity_action as a function of its arguments: the state after     *)
(* construction holds a call about to be made, on a mapping whose          *)
(* velocity_mappings are drawn from the tables of at most MaxEntries items *)
(* with distinct range strings (the keys of a dict) and on any MIDI        *)
(* velocity; the one action makes the call.                                *)
(***************************************************************************)
MaxEntries == 2

\* the velocities of a MIDI note message
MidiVelocities == 0..127

\* items of velocity_mappings: ranges that overlap, that leave gaps, a
\* reversed one, one past 127 and two strings int() or the unpacking refuses
VelocityItems ==
    {[range |-> "0-63", action |-> "soft"], [range |-> "64-127", action |-> "hard"],
     [range |-> "0-127", action |-> "any"], [range |-> "50-60", action |-> "narrow"],
     [range |-> "90-10", action |-> "reversed"], [range |-> "0-200", action |-> "wide"],
     [range |-> "1-2-3", action |-> "three"], [range |-> "loud", action |-> "word"]}

VelocityTables ==
    {table \in UNION {[1..n -> VelocityItems] : n \in 0..MaxEntries} :
        \A i, j \in DOMAIN table : table[i].range = table[j].range => i = j}

InitVelocity ==
    /\ Connected({LayerHeap})
    /\ \E table \in VelocityTables, v \in MidiVelocities :
          calls = [t \in Threads |->
                     IF t = 1
                     THEN [fn |-> "get_velocity_action", note |-> 11,
                           mapping |-> [PadMapping(11, "default", "green")
                                          EXCEPT !.velocity_mappings = table],
                           velocity |-> v, returned |-> FALSE, result |-> None]
                     ELSE NoCall]

\* the call of get_velocity_action(mapping, velocity)
GetVelocityAction(t) ==
    /\ calls[t].fn = "get_velocity_action"
    /\ ~calls[t].returned
    /\ calls' = [calls EXCEPT ![t].returned = TRUE,
                              ![t].result = get_velocity_action(calls[t].mapping,
                                                                calls[t].velocity)]
    /\ UNCHANGED <<connVars, importVars, autoVars, animVars, tailVars, monVars, now, profVars, callVars,
                   sessVars, surfVars, idleFlagVars, pressVars>>

NextVelocity == \E t \in Threads : GetVelocityAction(t)

SpecVelocity == InitVelocity /\ [][NextVelocity]_vars

(***************************************************************************)
(* SpecEquiv: the hardware press branch of handle_midi_message and         *)
(* emulate_pad_press resolve the same mapping with the same velocity; each *)
(* call records the operation it performs.                                 *)
(***************************************************************************)
\* what one press does: a layer-stack operation, a macro or a key combo
PressEffect(op, layer, steps, combo) ==
    [op |-> op, layer |-> layer, steps |-> steps, combo |-> combo]

NoEffect == PressEffect("none", None, <<>>, "")

\* emulate_pad_press resolving the default velocity whatever it is given
DefaultVelocity(velocity) == EmulateVelocity

\* emulate_pad_press: `self.get_velocity_action(mapping, velocity)`
EmulatedVelocity(velocity) == velocity

\* handle_midi_message, `note_on` with velocity > 0, over the mapping found
handle_midi_message_press(mapping, velocity) ==
    IF mapping = NoMapping \/ ~mapping.enabled THEN NoEffect
    ELSE IF mapping.action = "layer_up"
         THEN PressEffect("pop_layer", None, <<>>, "")
    ELSE IF mapping.action = "layer" /\ mapping.target_layer # None
         THEN PressEffect("push_layer", mapping.target_layer, <<>>, "")
    ELSE IF mapping.long_press_enabled /\ mapping.long_press_action # ""
         THEN PressEffect("check_long_press", None, <<>>, mapping.long_press_action)
    ELSE IF mapping.macro_steps # <<>>
         THEN PressEffect("execute_macro", None, mapping.macro_steps, "")
    ELSE LET action == get_velocity_action(mapping, velocity)
         IN IF action # "" THEN PressEffect("execute_key_combo", None, <<>>, action)
            ELSE NoEffect

\* emulate_pad_press(note, skip_pulse, velocity) over the mapping found
emulate_pad_press(mapping, velocity) ==
    IF Unmapped(mapping) THEN NoEffect
    ELSE IF mapping.action = "layer_up"
         THEN PressEffect("pop_layer", None, <<>>, "")
    ELSE IF mapping.action = "layer" /\ mapping.target_layer # None
         THEN PressEffect("push_layer", mapping.target_layer, <<>>, "")
    ELSE IF mapping.macro_steps # <<>>
         THEN PressEffect("execute_macro", None, mapping.macro_steps, "")
    ELSE LET action == get_velocity_action(mapping, EmulatedVelocity(velocity))
         IN IF action # "" THEN PressEffect("execute_key_combo", None, <<>>, action)
            ELSE NoEffect

\* velocity tables of a velocity-sensitive control
EquivTables ==
    {<<>>,
     <<[range |-> "0-63", action |-> "soft"], [range |-> "64-127", action |-> "hard"]>>,
     <<[range |-> "100-127", action |-> ""]>>}

\* mappings of one control: every action kind, with and without a target
\* layer, a macro, a velocity table, repeat, long-press, enabled or not
EquivMappings ==
    {[PadMapping(11, k, "green") EXCEPT
         !.action = a, !.target_layer = tl, !.macro_steps = ms,
         !.velocity_mappings = table, !.repeat_enabled = r, !.enabled = e,
         !.long_press_enabled = lp, !.long_press_action = la] :
       k \in {"default", ""}, a \in {"key", "layer", "layer_up"},
       tl \in {None, "FX"}, ms \in {<<>>, MacroKey(11).macro_steps},
       table \in EquivTables, r \in BOOLEAN, e \in BOOLEAN, lp \in BOOLEAN,
       la \in {"", "long"}}

EquivVelocities == {1, 63, 64, 127}

\* thread 1 calls emulate_pad_press, thread 2 is the MIDI callback thread
InitEquiv ==
    /\ Connected({LayerHeap})
    /\ \E mapping \in EquivMappings, v \in EquivVelocities :
          calls = [t \in Threads |->
                     IF t = 1
                     THEN [fn |-> "emulate_pad_press", note |-> mapping.note,
                           mapping |-> mapping, velocity |-> v,
                           returned |-> FALSE, result |-> NoEffect]
                     ELSE IF t = 2
                     THEN [fn |-> "handle_midi_message", note |-> mapping.note,
                           mapping |-> mapping, velocity |-> v,
                           returned |-> FALSE, result |-> NoEffect]
                     ELSE NoCall]

\* the call emulate_pad_press(note, velocity=v)
EmulateCall(t) ==
    /\ calls[t].fn = "emulate_pad_press"
    /\ ~calls[t].returned
    /\ calls' = [calls EXCEPT ![t].returned = TRUE,
                              ![t].result = emulate_pad_press(calls[t].mapping,
                                                              calls[t].velocity)]
    /\ UNCHANGED <<connVars, importVars, autoVars, animVars, tailVars, monVars, now,
                   profVars, callVars, sessVars, surfVars, idleFlagVars, pressVars>>

\* the MIDI callback handling note_on(note, velocity=v)
HardwareCall(t) ==
    /\ calls[t].fn = "handle_midi_message"
    /\ ~calls[t].returned
    /\ calls' = [calls EXCEPT ![t].returned = TRUE,
                              ![t].result = handle_midi_message_press(calls[t].mapping,
                                                                      calls[t].velocity)]
    /\ UNCHANGED <<connVars, importVars, autoVars, animVars, tailVars, monVars, now,
                   profVars, callVars, sessVars, surfVars, idleFlagVars, pressVars>>

NextEquiv ==
    \/ \E t \in Threads : EmulateCall(t)
    \/ \E t \in Threads : HardwareCall(t)

SpecEquiv == InitEquiv /\ [][NextEquiv]_vars

\* every call has returned
Quiescent == \A t \in Threads : threads[t].pc = "idle"

\* no animation is running
NoAnimation == idle_thread = 0 /\ idleWorkers = EmptyDict /\ pulses = EmptyDict

(***************************************************************************)
(* Claims                                                                  *)
(***************************************************************************)
\* C1: for one press of a control whose mapping has long-press enabled with
\* an alternate action, at most one of the primary (short-press) action and
\* the alternate (long-press) action is injected, under every interleaving
\* of the long-press timer with the release handling.
C1_AtMostOneAction ==
    \A p \in 1..MaxPresses : ~(inj[p].primary > 0 /\ inj[p].alt > 0)

\* C3: after disconnect() has returned, no repeat task and no long-press
\* timer created before that disconnect injects a key or emits its event.
C3_NoTaskSurvivesDisconnect == staleActs = {}

\* C10: start_key_repeat called again for a control that is already
\* repeating creates no thread: every repeat task that has not been
\* signalled to stop is the one task registered for its control in
\* active_repeats, with its stop event registered in repeat_stop_events, and
\* the two maps register the same controls.
C10_OneRepeatTask ==
    /\ DOMAIN active_repeats = DOMAIN repeat_stop_events
    /\ \A t \in DOMAIN repeatTasks :
         repeatTasks[t].event \notin eventsSet =>
            /\ repeatTasks[t].note \in DOMAIN active_repeats
            /\ active_repeats[repeatTasks[t].note] = t
            /\ repeat_stop_events[repeatTasks[t].note] = repeatTasks[t].event

\* C10 witness: control 11 was pressed twice with no release or stop in
\* between, and one repeat thread exists
C10_Witness ==
    /\ nPresses = 2 /\ lastPress[11] = 2 /\ lastPress[12] = 0
    /\ disconnects = 0 /\ cb.pc = "idle"
    /\ 11 \in DOMAIN active_repeats
    /\ repeatThreads = 1
    /\ 1 \in DOMAIN repeatTasks

\* C2: after any sequence or interleaving of push_layer, pop_layer,
\* set_layer and set_profile the layer stack has depth at least one and the
\* current layer is its last element.
C2_StackNeverEmpty ==
    /\ Len(layer_stack) >= 1
    /\ current_layer = layer_stack[Len(layer_stack)]

\* C6: when the engine is running with an output connected, no animation
\* is active and every overlapping operation has completed, every LED shows
\* the colour of its enabled mapping in the current layer and is off
\* otherwise.
C6_LedsShowCurrentLayer ==
    (Quiescent /\ running /\ output_port /\ NoAnimation)
        => led = MappingColours(heap[profile], current_layer)

\* C4: with an explicit connect() and the auto-reconnect loop running
\* concurrently, also when a port open hangs past its timeout and is
\* retried, at most one port-open call is in progress at any instant.
C4_OneOpenInProgress == openCalls <= 1

\* C5: connect(), called explicitly or by the auto-reconnect loop, never
\* waits for the connection lock while it holds that lock itself (a wait
\* that cannot end, so the call would not return nor release the lock),
\* also when an input or output handle is already present.
C5_ConnectNeverBlocksOnItself ==
    \A c \in ConnThreads : ~(conn[c].pc = "disc_lock" /\ connection_lock = c)

\* C7: while the engine is running and no reset_activity() occurs, the idle
\* monitoring starts the idle animation at most once after the idle
\* threshold is crossed, however many idle checks run.
C7_IdleStartedOnce == monStarts <= 1

\* C8: at the return of reset_activity(), the engine running with an output
\* connected and the current layer having an enabled mapping, the idle
\* animation is not running, the idle-triggered flag is false and the LEDs
\* show the current layer's mapping colours, under any interleaving with
\* the idle monitor.
C8_ResetLeavesNoIdle ==
    \A t \in Threads :
        threads[t].post.seen =>
            /\ ~threads[t].post.animation
            /\ ~threads[t].post.flag
            /\ threads[t].post.leds

\* what get_profile and list_profiles read is there: the active profile, a
\* current layer, the profiles of the registry
Queryable ==
    /\ profile \in DOMAIN heap
    /\ layer_stack # <<>>
    /\ \A name \in DOMAIN profiles : profiles[name] \in DOMAIN heap

\* C9: an import whose payload fails validation (no data, a payload
\* validate_profile_import refuses, in particular one with more layers than
\* MAX_LAYERS) is answered with a 400 error, and no step of its handler changes
\* the profile objects, the active profile, the layer stack or the registry,
\* which remain queryable
C9_RejectedImportChangesNothing ==
    [][\A t \in Threads :
          LET req == IF threads[t].pc = "idle" THEN request'[t] ELSE request[t]
              fails == \/ Falsy(req.json)
                       \/ ~validate_profile_import(req.json, req.size).ok
                       \/ /\ req.json.type = "dict"
                          /\ "layers" \in DOMAIN req.json.val
                          /\ req.json.val["layers"].type = "dict"
                          /\ Cardinality(DOMAIN req.json.val["layers"].val) > MAX_LAYERS
          IN (threads'[t] # threads[t] /\ threads'[t].op = "import_profile" /\ fails)
             => /\ UNCHANGED <<heap, profile, layer_stack, profiles>>
                /\ threads'[t].pc \in {"im_validate", "idle"}
                /\ (threads'[t].pc = "idle")
                      => (~response'[t].success /\ response'[t].status = 400)
                /\ Queryable']_vars

\* C9 witness: after an import changed the registry and the active profile,
\* an import with MAX_LAYERS + 1 layers has been refused
C9_Witness ==
    \E t \in Threads :
        /\ threads[t].op = "import_profile"
        /\ threads[t].pc = "idle"
        /\ response[t].status = 400
        /\ response[t].error = "Validation error: Too many layers (max 50)"
        /\ "Imported" \in DOMAIN profiles
        /\ profile = profiles["Imported"]

\* C11: stop_key_repeat(c) for a control with no repeat task, and
\* stop_all_repeats() with no repeat active, change nothing: the repeat maps,
\* the set events and all other engine state are as before the call
C11_StopWithoutTaskChangesNothing ==
    [][\A t \in Threads :
          (/\ threads[t].pc = "stop"
           /\ threads'[t].pc = "idle"
           /\ \/ /\ threads[t].op = "stop_key_repeat"
                 /\ threads[t].mp \notin DOMAIN active_repeats
                 /\ threads[t].mp \notin DOMAIN repeat_stop_events
              \/ /\ threads[t].op = "stop_all_repeats"
                 /\ active_repeats = EmptyDict)
          => UNCHANGED <<connVars, apiVars, monVars, now, profVars, profile_lock, nOps,
                         sessVars, surfVars, idleFlagVars, pressVars>>]_vars

\* C11 witness: stop_key_repeat(12) was called while control 11 was
\* repeating and control 12, never pressed, had no repeat task
C11_Witness ==
    \E t \in Threads :
        /\ threads[t].op = "stop_key_repeat"
        /\ threads[t].pc = "idle"
        /\ threads[t].mp = 12
        /\ lastPress[12] = 0
        /\ 11 \in DOMAIN active_repeats
        /\ 12 \notin DOMAIN active_repeats
\* the inclusive range [low, high] of an item of a velocity table contains v
Contains(item, v) ==
    /\ Len(VelocityRange(item.range)) = 2
    /\ VelocityRange(item.range)[1] <= v
    /\ v <= VelocityRange(item.range)[2]

\* C12: get_velocity_action(mapping, v), for every v in 0..127, returns the
\* action of the entry of least index in the stored order whose inclusive
\* range contains v, and the mapping's default key_combo when the table is
\* empty or no range contains v.
C12_FirstContainingRange ==
    \A t \in Threads :
        (calls[t].fn = "get_velocity_action" /\ calls[t].returned) =>
            LET table == calls[t].mapping.velocity_mappings
                hits == {i \in DOMAIN table : Contains(table[i], calls[t].velocity)}
            IN calls[t].result =
                   IF hits = {} THEN calls[t].mapping.key_combo
                   ELSE table[CHOOSE i \in hits : \A j \in hits : i <= j].action

\* C12 witness: a velocity two entries contain, answered with the first one
C12_Witness ==
    \E t \in Threads :
        /\ calls[t].fn = "get_velocity_action" /\ calls[t].returned
        /\ calls[t].mapping.velocity_mappings =
               <<[range |-> "0-127", action |-> "any"],
                 [range |-> "0-63", action |-> "soft"]>>
        /\ calls[t].velocity = 10
        /\ calls[t].result = "any"

\* C13: the auto-reconnect task never waits on the connection lock: in no
\* state is its connect() at the acquisition of connection_lock while
\* another thread holds the lock (a cycle that finds the lock held is
\* skipped and makes no connect attempt).
C13_AutoNeverWaitsOnLock ==
    ~(/\ conn[AutoThread].pc = "lock"
      /\ connection_lock # 0
      /\ connection_lock # AutoThread)

\* C14: whenever the last set_auto_reconnect call had enabled=true, an
\* auto-reconnect loop is alive (also after enable, disable, enable in quick
\* succession).
C14_EnabledLoopAlive == auto_reconnect_enabled => AutoAlive

\* C15: connect(retries=n) makes at most n attempts, and when it returns
\* success=false it has accumulated exactly one error message per attempt
\* and both port handles are absent.
C15_FailedConnectLeavesNoHandle ==
    [][\A c \in ConnThreads :
          /\ conn'[c].op = "connect" => conn'[c].attempt <= conn'[c].retries + 1
          /\ (/\ conn[c].op = "connect" /\ conn[c].pc # "idle"
              /\ conn'[c].pc = "idle" /\ conn'[c].result = "failure")
             => /\ conn'[c].errors = conn'[c].retries
                /\ ~input_port'
                /\ ~output_port']_vars

C18_RunningImpliesInput == running => input_port

\* C19: pop_layer() called on a stack of depth 1 changes nothing: the stack
\* is as before, no layer_change notification is emitted, no repaint is
\* performed or left pending, and the call is over.
C19_PopAtBaseIsNoOp ==
    [][\A t \in Threads :
          (/\ nOps' = nOps + 1
           /\ threads[t].pc = "idle"
           /\ threads'[t].op = "pop_layer"
           /\ \A u \in Threads \ {t} : threads'[u] = threads[u]
           /\ Len(layer_stack) = 1)
          => /\ layer_stack' = layer_stack
             /\ notified' = notified
             /\ threads'[t].pc = "idle"
             /\ UNCHANGED <<surfVars, profile_lock, heap, profile>>]_vars

\* C19 witness: the first operation on the engine was a pop_layer() on the
\* stack of depth 1, and it is over
C19_Witness ==
    \E t \in Threads :
        /\ nOps = 1
        /\ threads[t].op = "pop_layer" /\ threads[t].pc = "idle"
        /\ Len(layer_stack) = 1
        /\ notified = <<>>

\* C20: emulate_pad_press(c) for a control with no mapping, or only a
\* disabled mapping, in the current layer returns success=false with an
\* error and changes nothing: no key is injected, the layer stack is
\* unchanged, no animation and no background task is started.
C20_EmulateUnmappedChangesNothing ==
    [][\A t \in Emulators :
          (/\ nOps' = nOps + 1
           /\ calls'[t].fn = "emulate_pad_press"
           /\ LET m == get_mapping(heap[profile], calls'[t].note, current_layer)
              IN m = NoMapping \/ ~m.enabled)
          => /\ ~calls'[t].result.success
             /\ calls'[t].result.error # ""
             /\ UNCHANGED <<connVars, importVars, autoVars, animVars, tailVars, monVars, now, profVars,
                            threads, profile_lock, sessVars, surfVars, idleFlagVars,
                            pressVars>>]_vars

\* C20 witness: after an emulated press that acted, an emulated press of
\* control 12, whose mapping in the current layer is disabled, has returned
\* success=false
C20_Witness ==
    \E t \in Emulators :
        /\ nOps = 2 /\ nPresses = 1
        /\ calls[t].fn = "emulate_pad_press" /\ calls[t].note = 12
        /\ ~calls[t].result.success
        /\ get_mapping(heap[profile], 12, current_layer) # NoMapping
        /\ ~get_mapping(heap[profile], 12, current_layer).enabled

\* C21: start() called on an LED animation whose thread is alive creates no
\* thread: a call that found the thread of the animation alive has returned
\* and never reaches the creation of a thread, for a pulse, a progress bar
\* and a rainbow cycle.
C21_StartOnAliveCreatesNoThread ==
    \A t \in Threads :
        (threads[t].op = "anim_start" /\ threads[t].post.animation)
        => threads[t].pc = "idle"

\* C21 witness: an animation made and started twice, the second start over,
\* with the one thread of the first start running
C21_Witness ==
    \E t \in Threads :
        /\ nOps = 3 /\ threads[t].op = "anim_start" /\ threads[t].pc = "idle"
        /\ threads[t].post.animation
        /\ \A u \in Threads : threads[u].pc = "idle"
        /\ animation.spawned = 1 /\ animation.thread = 1
        /\ DOMAIN animation.tasks = {1}

\* C22: whenever a profile built by add_mapping and ensure_layer calls has
\* been converted by to_dict and rebuilt by from_dict, the rebuilt profile has
\* the name, the description, the base layer, the layer names and, layer by
\* layer, the mappings of the profile it was made from (velocity tables
\* compared as dicts).
SameMapping(a, b) ==
    /\ [a EXCEPT !.velocity_mappings = <<>>] = [b EXCEPT !.velocity_mappings = <<>>]
    /\ {a.velocity_mappings[i] : i \in DOMAIN a.velocity_mappings}
         = {b.velocity_mappings[i] : i \in DOMAIN b.velocity_mappings}
    /\ Len(a.velocity_mappings) = Len(b.velocity_mappings)

C22_RoundTripPreservesProfile ==
    \A t \in Threads :
        (threads[t].op = "round_trip" /\ threads[t].pc = "idle")
        => LET p == heap[profile]
               restored == heap[request[t].created]
           IN /\ restored.name = p.name
              /\ restored.description = p.description
              /\ restored.base_layer = p.base_layer
              /\ DOMAIN restored.layers = DOMAIN p.layers
              /\ \A layer \in DOMAIN p.layers \cap DOMAIN restored.layers :
                     /\ DOMAIN restored.layers[layer] = DOMAIN p.layers[layer]
                     /\ \A n \in DOMAIN p.layers[layer] :
                            SameMapping(restored.layers[layer][n], p.layers[layer][n])

\* C23: the long-press timer armed by a press whose release has been
\* processed never passes its test: when it wakes it ends, without marking a
\* long press and without injecting the alternate action, also when the same
\* control has been pressed again in the meantime.
C23_ReleasedTimerNeverFires ==
    [][\A p \in 1..MaxPresses :
          (/\ p \in DOMAIN timers /\ timers[p].pc = "sleep"
           /\ p \in released
           /\ p \in DOMAIN timers')
          => timers'[p].pc = "sleep"]_vars

\* C24: a press whose mapping at press time is a layer pop or a layer push
\* does the stack operation and nothing else: at the press it starts no
\* repeat task and no long-press timer, and neither the press nor its
\* release injects a key combo, whatever the control is mapped to in the
\* layer that has become current.
C24_LayerPressOnlyMovesStack ==
    [][\A p \in 1..MaxPresses :
          inj'[p].layer_action > 0
          => /\ inj'[p].primary = 0
             /\ inj'[p].alt = 0
             /\ p \notin DOMAIN timers'
             /\ (inj[p].layer_action = 0 => repeatTasks' = repeatTasks)]_vars

\* C25: for every control whose latest press has had its release processed,
\* the engine holds no repeat task, no press timestamp and no
\* long-press-fired entry, whatever the long-press timers still running do.
C25_ReleaseLeavesNoEntry ==
    \A n \in Notes :
        lastPress[n] \in released
        => /\ n \notin DOMAIN active_repeats
           /\ n \notin DOMAIN repeat_stop_events
           /\ n \notin DOMAIN press_times
           /\ n \notin DOMAIN long_press_triggered

\* C26: every step leaves each thread that is inside update_pad_colors in
\* possession of the Profile lock, and every step that changes the mappings
\* of a profile is taken with the Profile lock held at its end: no two
\* repaints, and no repaint and mapping edit, are under way together.
C26_RepaintAndEditUnderLock ==
    [][/\ \A t \in Threads :
             threads'[t].pc \in {"upc_stop", "upc_read", "upc_paint"} => profile_lock' = t
       /\ heap' # heap => profile_lock' \in Threads]_vars

\* C27: a pad press, from the device or from emulate_pad_press, is
\* dispatched against a profile and a layer stack that belong together: the
\* layer it looks its mapping up in is a layer of the profile it looks in
\* (every layer of a stack is one that push_layer, set_layer or set_profile
\* found or made in the profile the stack was built on).
C27_DispatchSeesMatchingStack ==
    [][(nPresses' # nPresses \/ calls' # calls)
       => current_layer \in DOMAIN heap[profile].layers]_vars

\* C28: at most one idle-animation worker is alive at any time, whichever
\* threads (the idle monitor, a repaint, a manual play) start the animation.
C28_OneIdleWorker == Cardinality(DOMAIN idleWorkers) <= 1

\* C29: whatever start() and stop() calls have been made, at most one
\* idle-timeout monitor thread is alive: a monitor that stop() told to stop
\* is gone before a later start() creates the next one.
C29_OneMonitor == Cardinality(DOMAIN monitors) <= 1

\* C30: when update_pad_colors has made its stop step, no pulse, progress
\* bar, rainbow cycle or idle animation is left running unsignalled; and no
\* animation thread paints a pad while a thread is inside update_pad_colors.
C30_RepaintExcludesAnimations ==
    [][/\ \A t \in Threads :
             (threads[t].pc = "upc_stop" /\ threads'[t].pc # "upc_stop")
             => /\ \A i \in DOMAIN pulses' : pulses'[i].stop
                /\ DOMAIN animation'.tasks = {} \/ animation'.stop_event
                /\ idleWorkers' = EmptyDict
       /\ (threads' = threads /\ led' # led)
          => \A t \in Threads :
                 threads[t].pc \notin {"upc_stop", "upc_read", "upc_paint"}]_vars

(***************************************************************************)
(* SpecLastPort: connect() with port identifiers, the identifiers the      *)
(* engine remembers, and the auto-reconnect cycle that passes them back.   *)
(***************************************************************************)
\* the identifier the attached device's ports carry, and another one
LaunchpadPort == "Launchpad X MIDI"
PortIds == {LaunchpadPort, "Other"}

\* x or y on identifiers (None is falsy)
Or(x, y) == IF x # None THEN x ELSE y

\* find_launchpad_ports: the identifiers found among the ports of the device
find_launchpad_ports ==
    [input |-> IF "in" \in device THEN LaunchpadPort ELSE None,
     output |-> IF "out" \in device THEN LaunchpadPort ELSE None]

\* what mido's opener can do with an identifier: a port only for one the
\* device exposes on that side, OSError always possible (busy, unknown)
CanOpen(id, side) == {"OSError"} \cup (IF id = LaunchpadPort /\ side \in device
                                       THEN {"port"} ELSE {})

\* a request thread calls connect(input_port=inp, output_port=outp)
ConnectPorts(c, inp, outp) ==
    /\ c \in Threads
    /\ conn[c].pc = "idle"
    /\ nConnects < MaxConnects
    /\ nConnects' = nConnects + 1
    /\ conn' = [conn EXCEPT ![c] = [ConnRest EXCEPT !.pc = "lock", !.op = "connect",
                                                    !.attempt = 1,
                                                    !.retries = DefaultRetries,
                                                    !.input_port = inp,
                                                    !.output_port = outp]]
    /\ UNCHANGED <<restVars, sessVars, surfVars, connection_lock, openCalls, hungOpens,
                   device>>

\* _auto_reconnect_worker: one cycle that passes the tests and calls
\* connect(self.last_input_port, self.last_output_port, retries=1)
AutoReconnectCycle ==
    /\ conn[AutoThread].pc = "idle"
    /\ nConnects < MaxConnects
    /\ ~(input_port /\ output_port)
    /\ connection_lock = 0
    /\ nConnects' = nConnects + 1
    /\ conn' = [conn EXCEPT ![AutoThread] =
                  [ConnRest EXCEPT !.pc = "lock", !.op = "connect", !.attempt = 1,
                                   !.retries = AutoRetries,
                                   !.input_port = last_input_port,
                                   !.output_port = last_output_port]]
    /\ UNCHANGED <<restVars, sessVars, surfVars, connection_lock, openCalls, hungOpens,
                   device>>

\* connect: the head of one attempt, up to the opens: the disconnect of an
\* open port, the detection, the assignment of last_input_port and
\* last_output_port, the "No Launchpad detected" branch; or the return after
\* the last attempt. entry_last keeps what the two fields held when the
\* lock was taken.
ConnectDetect(c) ==
    /\ conn[c].pc = "attempt"
    /\ LET entry == IF conn[c].attempt = 1 THEN <<last_input_port, last_output_port>>
                    ELSE conn[c].entry_last
           detected_input == Or(conn[c].input_port, find_launchpad_ports.input)
           detected_output == Or(conn[c].output_port, find_launchpad_ports.output)
       IN  IF conn[c].attempt > conn[c].retries
           THEN /\ connection_lock' = 0
                /\ conn' = [conn EXCEPT ![c].pc = "idle", ![c].result = "failure"]
                /\ UNCHANGED lastVars
           ELSE IF input_port \/ output_port
           THEN /\ conn' = [conn EXCEPT ![c].pc = "disc_lock", ![c].inner = TRUE,
                                        ![c].entry_last = entry]
                /\ UNCHANGED <<connection_lock, lastVars>>
           ELSE /\ last_input_port' = Or(detected_input, last_input_port)
                /\ last_output_port' = Or(detected_output, last_output_port)
                /\ UNCHANGED connection_lock
                /\ conn' = [conn EXCEPT
                     ![c].entry_last = entry,
                     ![c].detected_input = detected_input,
                     ![c].detected_output = detected_output,
                     ![c].pc = IF detected_input = None /\ detected_output = None
                               THEN "attempt" ELSE "opening",
                     ![c].attempt = IF detected_input = None /\ detected_output = None
                                    THEN @ + 1 ELSE @,
                     ![c].errors = IF detected_input = None /\ detected_output = None
                                   THEN @ + 1 ELSE @]
    /\ UNCHANGED <<now, profVars, callVars, idleFlagVars, pressVars, monVars,
                   importVars, calls, autoVars, animVars, rawVars, macroRunVars,
                   repeatLogVars, saveVars,
                   sessVars, surfVars, openCalls, hungOpens, nConnects, device>>

\* connect: the opens of one attempt and what follows them. Both opened (or
\* the one that was asked for): repaint with an output, release the lock,
\* return success with the identifiers; OSError: close what was opened and
\* go to the next attempt
ConnectOpen(c, resIn, resOut) ==
    /\ conn[c].pc = "opening"
    /\ resIn \in (IF conn[c].detected_input = None THEN {"skip"}
                  ELSE CanOpen(conn[c].detected_input, "in"))
    /\ resOut \in (IF conn[c].detected_output = None THEN {"skip"}
                   ELSE IF resIn = "OSError" THEN {"skip"}
                   ELSE CanOpen(conn[c].detected_output, "out"))
    /\ IF "OSError" \in {resIn, resOut}
       THEN /\ input_port' = FALSE
            /\ output_port' = FALSE
            /\ conn' = [conn EXCEPT ![c].pc = "attempt", ![c].attempt = @ + 1,
                                    ![c].errors = @ + 1]
            /\ UNCHANGED <<surfVars, connection_lock>>
       ELSE /\ input_port' = (resIn = "port")
            /\ output_port' = (resOut = "port")
            /\ \E joined \in JoinOutcomes :
                 SetSurface(IF resOut = "port"
                            THEN update_pad_colors(Surface, TRUE, heap[profile],
                                                   current_layer, joined)
                            ELSE Surface)
            /\ connection_lock' = 0
            /\ conn' = [conn EXCEPT ![c].pc = "idle", ![c].result = "success",
                                    ![c].reported = ConnectedFlags(resIn = "port",
                                                                   resOut = "port")]
    /\ UNCHANGED <<restVars, running, openCalls, hungOpens, nConnects, device>>

NextLastPort ==
    \/ \E c \in ConnThreads, inp, outp \in PortIds \cup {None} : ConnectPorts(c, inp, outp)
    \/ AutoReconnectCycle
    \/ \E c \in ConnThreads : ConnectLock(c)
    \/ \E c \in ConnThreads : ConnectDetect(c)
    \/ \E c \in ConnThreads, resIn, resOut \in {"port", "OSError", "skip"} :
         ConnectOpen(c, resIn, resOut)
    \/ \E c \in ConnThreads : DisconnectCall(c)
    \/ \E c \in ConnThreads : DisconnectLock(c)
    \/ \E c \in ConnThreads : DisconnectBody(c)

SpecLastPort == InitConn /\ [][NextLastPort]_vars

\* C31: a connect() that returns success=false leaves last_input_port and
\* last_output_port as they were when it took the connection lock
C31_FailedConnectKeepsLastPorts ==
    [][\A c \in ConnThreads :
         (conn[c].pc # "idle" /\ conn'[c].pc = "idle" /\ conn'[c].op = "connect"
            /\ conn'[c].result = "failure")
         => <<last_input_port', last_output_port'>> = conn[c].entry_last]_vars

(***************************************************************************)
(* SpecShortPress: the dispatch of SpecPress on profiles that hold a       *)
(* mapping with long-press enabled and no alternate action.                *)
(***************************************************************************)
\* PadMapping(long_press_enabled=True) with long_press_action left ""
EmptyAltKey(note) ==
    [PadMapping(note, "a", "green") EXCEPT !.long_press_enabled = TRUE]

ShortPressProfiles ==
    { add_mapping(add_mapping(NewProfile("Default", "Base"),
                              EmptyAltKey(11), "Base"), RepeatKey(12), "Base"),
      add_mapping(add_mapping(add_mapping(NewProfile("Default", "Base"),
                              LongPressKey(11), "Base"), LayerPush(12, "FX"), "Base"),
                  LayerUp(12), "FX"),
      add_mapping(add_mapping(NewProfile("Default", "Base"),
                              EmptyAltKey(11), "Base"), MacroKey(12), "Base"),
      add_mapping(ensure_layer(NewProfile("Default", "Base"), "FX"),
                  LayerPush(12, "FX"), "Base") }

InitShortPress == InitOn({<<p>> : p \in ShortPressProfiles})

SpecShortPress == InitShortPress /\ [][NextPress]_vars

\* C32: for one press-release cycle of a control, the primary action is
\* injected at most once outside the repeat loop, whatever the long-press
\* flag, the alternate action, the hold duration and the velocity
C32_PrimaryAtMostOnce ==
    \A p \in 1..MaxPresses : inj[p].primary <= 1

\* the operations that end with notify_layer_change()
LayerOps == {"push_layer", "pop_layer", "set_layer", "set_profile"}

\* C33: every push_layer, set_layer, set_profile and every pop_layer on a
\* stack deeper than 1 emits exactly one layer_change notification, which
\* carries the top of the stack the operation left; the stack changes only
\* inside such an operation and the notification is emitted before the next
\* change, so notifications follow the order of the changes
C33_OneNotificationPerChange ==
    [][/\ (layer_stack' # layer_stack => (notified' = notified /\ profile_lock' # 0))
       /\ (notified' # notified =>
             /\ notified' = Append(notified, Top(layer_stack'))
             /\ layer_stack' = layer_stack
             /\ profile_lock # 0 /\ profile_lock' = 0)
       /\ ((profile_lock # 0 /\ profile_lock' = 0
              /\ threads[profile_lock].op \in LayerOps)
             => Len(notified') = Len(notified) + 1)]_vars

\* C33 witness: three operations by two threads have finished, a pop on a
\* deeper stack among them, and the last notification names the current layer
C33_Witness ==
    /\ profile_lock = 0
    /\ Len(notified) = 3
    /\ notified[3] = current_layer
    /\ notified[2] # notified[3]
    /\ \E t, u \in Threads : /\ t # u
                             /\ threads[t].op = "pop_layer" /\ threads[t].pc = "idle"
                             /\ threads[u].op \in LayerOps /\ threads[u].pc = "idle"

(***************************************************************************)
(* SpecGate: the transport callback _mido_callback in front of the         *)
(* dispatch of SpecPress, with events arriving whether or not the engine   *)
(* is running.                                                             *)
(***************************************************************************)
\* midi_raw notifications emitted in one behaviour
MaxEvents == 3

\* _mido_callback(msg) for a note_on / note_off: the midi_raw notification to
\* the callbacks, the gate on self.running, handle_midi_message(msg)
MidoCallback(type, note, velocity) ==
    /\ cb.pc = "idle"
    /\ midi_raw.n < MaxEvents
    /\ midi_raw' = [n |-> midi_raw.n + 1, handled |-> Dispatching(running)]
    /\ IF ~Dispatching(running)
       THEN UNCHANGED <<now, profVars, callVars, idleFlagVars, pressVars, monVars,
                        importVars, calls, autoVars, animVars, connVars, sessVars,
                        surfVars>>
       ELSE IF type = "note_on" /\ velocity > 0
            THEN HandleNoteOn(note, velocity)
            ELSE HandleNoteOff(note)
    /\ UNCHANGED <<lastVars, macroRunVars, repeatLogVars, saveVars>>

NextGate ==
    \/ \E type \in {"note_on", "note_off"}, n \in Notes, v \in Velocities \cup {0} :
         MidoCallback(type, n, v)
    \/ ReleaseExecute
    \/ ReleaseCleanup
    \/ \E p \in 1..MaxPresses : TimerWake(p)
    \/ \E p \in 1..MaxPresses : TimerMark(p)
    \/ \E p \in 1..MaxPresses : TimerInject(p)
    \/ \E t \in 1..MaxPresses : RepeatAdvance(t)
    \/ \E t \in 1..MaxPresses : RepeatInject(t)
    \/ \E p \in 1..MaxPresses : MacroStep(p)
    \/ \E i \in 1..MaxPresses : PulseStep(i)
    \/ \E w \in 1..(MaxIdleWorkers + 1) : IdleWorkerStep(w)
    \/ Tick
    \/ PressDisconnect
    \/ PressConnect
    \/ PressStart

SpecGate == InitPress /\ [][NextGate]_vars

\* C34: a hardware event that arrives while running is false emits its
\* midi_raw notification and nothing else: no injection, no layer-stack
\* change, no press-state change, no repeat, long-press or macro task
C34_StoppedEventOnlyNotifies ==
    [][(midi_raw'.n > midi_raw.n /\ ~running)
         => /\ ~midi_raw'.handled
            /\ inj' = inj
            /\ layer_stack' = layer_stack
            /\ press_times' = press_times
            /\ long_press_triggered' = long_press_triggered
            /\ nPresses' = nPresses
            /\ cb' = cb
            /\ repeatTasks' = repeatTasks
            /\ active_repeats' = active_repeats
            /\ timers' = timers
            /\ macros' = macros]_vars

\* C34 witness: an event has arrived with the engine stopped while a press
\* made before the stop is still held, and it was not handled
C34_Witness ==
    /\ ~running
    /\ midi_raw.n > nPresses
    /\ ~midi_raw.handled
    /\ nPresses > 0
    /\ press_times # EmptyDict

(***************************************************************************)
(* SpecMacro: execute_macro and its macro_worker threads on the macro      *)
(* steps a saved mapping can carry.                                        *)
(***************************************************************************)
\* every variable but those of tailVars
coreVars == <<now, profVars, callVars, idleFlagVars, pressVars, monVars, importVars, calls,
              autoVars, animVars, connVars, sessVars, surfVars>>

\* macro runs in one behaviour, and steps in one macro
MaxRuns == 2
MaxSteps == 2

\* the steps POST /api/mapping stores as they come (data.get('macro_steps')):
\* key_combo a string, possibly empty; delay_after a JSON number or null
\* (a value with its Python type)
NullDelay == [type |-> "NoneType", val |-> 0]
MacroStepValues == [key_combo : {"m1", "m2", ""},
                    delay_after : {JInt(1), NullDelay}]
MacroLists == UNION {[1..n -> MacroStepValues] : n \in 1..MaxSteps}

\* what keyboard.send does inside execute_key_combo
SendResults == {"sent", "Exception"}

\* the key combos of the steps that have one, in list order
StepCombos(steps) ==
    LET withCombo == SelectSeq(steps, LAMBDA st : st.key_combo # "")
    IN [i \in 1..Len(withCombo) |-> withCombo[i].key_combo]

\* the combos execute_key_combo was called with, in call order
CalledCombos(run) == [i \in 1..Len(run.calls) |-> run.calls[i][1]]

\* execute_macro(mapping): a macro_worker thread for a non-empty step list
ExecuteMacro(steps) ==
    /\ Cardinality(DOMAIN macro_runs) < MaxRuns
    /\ macro_runs' = IF steps = <<>> THEN macro_runs
                     ELSE DictSet(macro_runs, Cardinality(DOMAIN macro_runs) + 1,
                                  [steps |-> steps, at |-> 1, pc |-> "combo",
                                   calls |-> <<>>])
    /\ UNCHANGED <<coreVars, lastVars, rawVars, repeatLogVars, saveVars>>

\* macro_worker: key_combo = step.get('key_combo', ''); if key_combo:
\* execute_key_combo(key_combo), which catches what keyboard.send raises
MacroInject(r, res) ==
    /\ r \in DOMAIN macro_runs
    /\ macro_runs[r].pc = "combo"
    /\ LET step == macro_runs[r].steps[macro_runs[r].at]
       IN macro_runs' = [macro_runs EXCEPT
            ![r].calls = IF step.key_combo # "" THEN Append(@, <<step.key_combo, res>>)
                         ELSE @,
            ![r].pc = "delay"]
    /\ UNCHANGED <<coreVars, lastVars, rawVars, repeatLogVars, saveVars>>

\* macro_worker: if delay_after > 0: time.sleep(delay_after), and the next
\* step. The comparison raises TypeError for a delay that is no number, and
\* the thread ends there.
MacroDelay(r) ==
    /\ r \in DOMAIN macro_runs
    /\ macro_runs[r].pc = "delay"
    /\ LET run == macro_runs[r]
           step == run.steps[run.at]
       IN macro_runs' = [macro_runs EXCEPT ![r] =
            IF step.delay_after.type \notin {"int", "float"}
            THEN [run EXCEPT !.pc = "TypeError"]
            ELSE IF run.at = Len(run.steps) THEN [run EXCEPT !.pc = "returned"]
            ELSE [run EXCEPT !.at = @ + 1, !.pc = "combo"]]
    /\ UNCHANGED <<coreVars, lastVars, rawVars, repeatLogVars, saveVars>>

NextMacro ==
    \/ \E steps \in MacroLists : ExecuteMacro(steps)
    \/ \E r \in 1..MaxRuns, res \in SendResults : MacroInject(r, res)
    \/ \E r \in 1..MaxRuns : MacroDelay(r)

SpecMacro == InitLayer /\ [][NextMacro]_vars

\* C36: a macro run that has ended has called execute_key_combo once for
\* every step that has a key combo, in list order, whatever the calls did
C36_MacroInjectsEveryStep ==
    \A r \in DOMAIN macro_runs :
       macro_runs[r].pc \notin {"combo", "delay"}
          => CalledCombos(macro_runs[r]) = StepCombos(macro_runs[r].steps)

(***************************************************************************)
(* SpecRepeatTask: key_repeat_worker with its injection and its key_repeat *)
(* event as separate steps, under the presses, releases and stops of       *)
(* SpecRepeat. Each worker thread is scheduled again and again.            *)
(***************************************************************************)
\* injections of one task that are counted
MaxRepeats == 2

\* a worker that goes from the injection straight to the wait
SkipKeyRepeatEvent == "wait"

\* key_repeat_worker: after execute_key_combo, the loop over self.callbacks
AfterExecute == "notify"

\* key_repeat_worker: self.execute_key_combo(mapping.key_combo)
RepeatSend(t) ==
    /\ t \in DOMAIN repeatTasks
    /\ repeatTasks[t].pc = "inject"
    /\ staleActs' = IF repeatTasks[t].epoch < disconnects THEN staleActs \cup {"key_repeat"}
                    ELSE staleActs
    /\ repeatTasks' = [repeatTasks EXCEPT ![t].pc = AfterExecute]
    /\ key_repeats' = [key_repeats EXCEPT
                         ![t].injected = IF @ < MaxRepeats THEN @ + 1 ELSE @,
                         ![t].owed = @ + 1]
    /\ UNCHANGED <<callVars, connVars, importVars, calls, autoVars, animVars, lastVars,
                   rawVars, macroRunVars, saveVars, monVars, now, profVars, sessVars, surfVars,
                   idleFlagVars, press_times, long_press_triggered, active_repeats,
                   repeat_stop_events, eventsSet, timers, macros, cb, nPresses, lastPress,
                   released, inj, repeatThreads, disconnects>>

\* key_repeat_worker: callback({"type": "key_repeat", ...}) for the callbacks
RepeatNotify(t) ==
    /\ t \in DOMAIN repeatTasks
    /\ repeatTasks[t].pc = "notify"
    /\ repeatTasks' = [repeatTasks EXCEPT ![t].pc = "wait"]
    /\ key_repeats' = [key_repeats EXCEPT ![t].owed = @ - 1]
    /\ UNCHANGED <<callVars, connVars, importVars, calls, autoVars, animVars, lastVars,
                   rawVars, macroRunVars, saveVars, monVars, now, profVars, sessVars, surfVars,
                   idleFlagVars, press_times, long_press_triggered, active_repeats,
                   repeat_stop_events, eventsSet, timers, macros, cb, nPresses, lastPress,
                   released, inj, repeatThreads, disconnects, staleActs>>

\* one step of the worker thread t
RepeatTaskStep(t) == RepeatAdvance(t) \/ RepeatSend(t) \/ RepeatNotify(t)

NextRepeatTask ==
    \/ \E n \in Notes, v \in Velocities : HandlePress(n, v)
    \/ \E n \in Notes : HandleRelease(n)
    \/ ReleaseCleanup
    \/ \E t \in 1..MaxPresses : RepeatAdvance(t)
    \/ \E t \in 1..MaxPresses : RepeatSend(t)
    \/ \E t \in 1..MaxPresses : RepeatNotify(t)
    \/ PressDisconnect
    \/ PressConnect
    \/ PressStart

\* one control that repeats and one that does not
InitRepeatTask ==
    InitOn({<<add_mapping(add_mapping(NewProfile("Default", "Base"),
                                      RepeatKey(11), "Base"),
                          PadMapping(12, "e", "green"), "Base")>>})

SpecRepeatTask ==
    /\ InitRepeatTask
    /\ [][NextRepeatTask]_vars
    /\ \A t \in 1..MaxPresses : WF_vars(RepeatTaskStep(t))

\* the stop event of task t is set
Cancelled(t) == t \in DOMAIN repeatTasks /\ repeatTasks[t].event \in eventsSet

\* C35: a repeat task cancelled during its initial delay never injects; a
\* task that injects emits exactly one key_repeat event after each
\* injection and before the next; a cancelled task terminates; a task that
\* is not cancelled goes on to inject
C35_RepeatTaskLifecycle ==
    /\ [](\A t \in 1..MaxPresses :
            /\ key_repeats[t].owed \in {0, 1}
            /\ (t \in DOMAIN repeatTasks
                  => (key_repeats[t].owed = 1 <=> repeatTasks[t].pc = "notify"))
            /\ (t \notin DOMAIN repeatTasks => key_repeats[t].owed = 0))
    /\ \A t \in 1..MaxPresses :
         []((Cancelled(t) /\ repeatTasks[t].pc = "delay")
              => [](key_repeats[t].injected = 0))
    /\ \A t \in 1..MaxPresses : Cancelled(t) ~> (t \notin DOMAIN repeatTasks)
    /\ \A t \in 1..MaxPresses :
         (t \in DOMAIN repeatTasks) ~> (Cancelled(t) \/ key_repeats[t].injected > 0)

\* C35 witness: one task was cancelled and has terminated without an
\* injection, another has injected twice with both events emitted and is
\* waiting for its next turn
C35_Witness ==
    \E t, u \in 1..MaxPresses :
       /\ t <= repeatThreads /\ t \notin DOMAIN repeatTasks
       /\ key_repeats[t].injected = 0
       /\ u \in DOMAIN repeatTasks /\ repeatTasks[u].pc = "wait"
       /\ key_repeats[u] = [injected |-> MaxRepeats, owed |-> 0]

\* C37 (idle face): an idle worker that is alive when the cancellation
\* signal is set finds it set until it has terminated, so that it paints at
\* most its current frame and ends at its next test of the signal
C37_CancelledWorkerEnds ==
    [][\A w \in DOMAIN idleWorkers :
         (idle_stop_event /\ w \in DOMAIN idleWorkers') => idle_stop_event']_vars

(***************************************************************************)
(* SpecDisabledLayer: the layer operations and repaints of SpecLayer on    *)
(* profiles with layers that hold only disabled mappings.                  *)
(***************************************************************************)
DisabledHeap ==
    << add_mapping(add_mapping(NewProfile("Default", "Base"),
                       PadMapping(11, "a", "green"), "Base"),
                   [PadMapping(12, "b", "red") EXCEPT !.enabled = FALSE], "FX"),
       add_mapping(NewProfile("Second", "Base"),
                   [PadMapping(12, "e", "red") EXCEPT !.enabled = FALSE], "Base") >>

InitDisabledLayer == InitOn({DisabledHeap})

SpecDisabledLayer == InitDisabledLayer /\ [][NextLayer]_vars

\* C38: at the step of a repaint that decides between the idle animation
\* and the mappings' colours, with an output connected, the idle animation
\* is running afterwards if the active layer has no enabled mapping, and is
\* not started by the repaint if it has one
C38_IdleIffNoEnabledMapping ==
    [][\A t \in Threads :
         (threads[t].pc = "upc_read" /\ threads'[t].pc # "upc_read" /\ output_port)
           => IF HasEnabledMapping
              THEN idle_thread' = idle_thread /\ idleWorkers' = idleWorkers
              ELSE idle_thread' # 0 /\ idle_thread' \in DOMAIN idleWorkers']_vars

MaxSaves == 3

\* the profiles handed to schedule_save_profiles
SaveData == {"d1", "d2"}

\* threading.Timer.cancel(): a timer still waiting never runs its function
CancelTimer(T, i) ==
    IF i # 0 /\ T[i].pc = "waiting" THEN [T EXCEPT ![i].pc = "cancelled"] ELSE T

\* the data of the scheduled saves whose timer has not fired yet
PendingData == {save_timers[i].data : i \in {j \in DOMAIN save_timers :
                                               save_timers[j].pc = "waiting"}}

\* PersistenceManager.schedule_save_profiles(profiles, active_profile)
schedule_save_profiles(d) ==
    /\ Len(save_timers) < MaxSaves
    /\ save_timers' = Append(CancelTimer(save_timers, save_timer),
                             [data |-> d, pc |-> "waiting"])
    /\ save_timer' = Len(save_timers) + 1
    /\ pending_save' = TRUE
    /\ UNCHANGED <<profiles_file, flushed,
                   coreVars, lastVars, rawVars, macroRunVars, repeatLogVars>>

\* threading.Timer.run: the delay is over and the timer was not cancelled
TimerFire(i) ==
    /\ save_timers[i].pc = "waiting"
    /\ save_timers' = [save_timers EXCEPT ![i].pc = "function"]
    /\ UNCHANGED <<save_timer, pending_save, profiles_file, flushed,
                   coreVars, lastVars, rawVars, macroRunVars, repeatLogVars>>

\* PersistenceManager._do_scheduled_save: the block under the lock
DoScheduledSave(i) ==
    /\ save_timers[i].pc = "function"
    /\ pending_save' = FALSE
    /\ save_timer' = 0
    /\ save_timers' = [save_timers EXCEPT ![i].pc = "save"]
    /\ UNCHANGED <<profiles_file, flushed,
                   coreVars, lastVars, rawVars, macroRunVars, repeatLogVars>>

\* PersistenceManager.save_profiles called by _do_scheduled_save
ScheduledSaveProfiles(i) ==
    /\ save_timers[i].pc = "save"
    /\ profiles_file' = Append(profiles_file, save_timers[i].data)
    /\ save_timers' = [save_timers EXCEPT ![i].pc = "done"]
    /\ UNCHANGED <<save_timer, pending_save, flushed,
                   coreVars, lastVars, rawVars, macroRunVars, repeatLogVars>>

\* PersistenceManager.flush_pending_saves()
flush_pending_saves ==
    /\ save_timers' = CancelTimer(save_timers, save_timer)
    /\ save_timer' = 0
    /\ flushed' = flushed \cup PendingData
    /\ UNCHANGED <<pending_save, profiles_file,
                   coreVars, lastVars, rawVars, macroRunVars, repeatLogVars>>

NextSave ==
    \/ \E d \in SaveData : schedule_save_profiles(d)
    \/ \E i \in DOMAIN save_timers : TimerFire(i)
    \/ \E i \in DOMAIN save_timers : DoScheduledSave(i)
    \/ \E i \in DOMAIN save_timers : ScheduledSaveProfiles(i)
    \/ flush_pending_saves

SpecSave == InitLayer /\ [][NextSave]_vars

\* C40: flush_pending_saves() forces a pending debounced profile save to
\* complete: when schedule_save_profiles(d, a) was called and its timer has
\* not fired yet, the data d has been written to the profiles file once
\* flush_pending_saves() has returned.
C40_FlushWritesPendingSave ==
    \A d \in flushed : \E i \in DOMAIN profiles_file : profiles_file[i] = d

====
